---- MODULE Spec2Model ----
(***************************************************************************)
(* A model of the pattern-detection and scoring engine of                  *)
(* whatsapp_analyzer: the regex pattern families, the Gottman and positive *)
(* detectors with their Oracle (LLM) reconciliation, the conversation      *)
(* aggregator analyze_conversation, and the health scorer.                 *)
(*                                                                         *)
(* Texts are sequences of lower-case word tokens (accents dropped, so      *)
(* "voce" stands for the source's accented word); a regex of the source    *)
(* that is a phrase between \b anchors is the contiguous occurrence of its *)
(* tokens, and a trailing $ is an occurrence at the end of the text.       *)
(***************************************************************************)
EXTENDS Integers, Sequences, FiniteSets, TLC

VARIABLES
    use_llm,         \* RelationshipPatternAnalyzer.use_llm
    pc,              \* position of analyze_conversation: "loop", "done", "raised"
    prev_message,    \* the previous row's message (shift(1)), NoRow before the first
    prev_sender,     \* the previous row's sender
    in_conflict,     \* analyze_conversation's in_conflict
    conflict_decay,  \* analyze_conversation's conflict_decay
    summary,         \* the PatternSummary being built
    log,             \* per processed row: what analyze_message was handed and returned
    call,            \* a single call of an operation: its name and its arguments
    result,          \* what the call returned, NotCalled before it
    window,          \* the scoring window: its rows and how many are of type 'text'
    scorer_llm,      \* ScientificHealthScorer.use_llm
    spc,             \* position of calculate_overall_score
    dimensions,      \* the DimensionScore of each dimension calculated so far
    rollup,          \* overall_score, the labels and the confidence, once computed
    outcome,         \* what calculate_overall_score returned or raised
    cost_tracker,    \* LLMRelationshipAnalyzer.cost_tracker: analyses, _costs_by_type
    invoked,         \* the Oracle operations invoked so far, each with its reply
    request,         \* the arguments of analyze_message_async and the Oracle's replies
    tasks,           \* analyze_message_async: how far each gathered call has come
    analysis         \* what analyze_message_async returned or raised

convVars == <<use_llm, pc, prev_message, prev_sender, in_conflict,
              conflict_decay, summary, log>>

callVars == <<call, result>>

scoreVars == <<window, scorer_llm, spc, dimensions, rollup, outcome>>

oracleVars == <<cost_tracker, invoked, request, tasks, analysis>>

-----------------------------------------------------------------------------
(* Bounds *)

\* rows of a conversation in the specification Spec
MaxMsgs == 3

Senders == {"A", "B"}

\* minutes between a row and the row before it
Gaps == {5, 121}

-----------------------------------------------------------------------------
(* Texts *)

NoRow == <<"<none>">>

T_EMPTY   == <<>>
T_NAN     == <<"nan">>
T_NEUTRAL == <<"bom", "dia">>
T_CONTEMPT == <<"que", "piada">>
T_CRITICISM == <<"voce", "nunca", "ajuda">>
T_TANTO_FAZ == <<"tanto", "faz">>
T_ATTACK  == <<"voce", "nunca", "ajuda", "tanto", "faz">>
T_OK      == <<"ok">>
T_SIM     == <<"sim">>
T_SAD     == <<"estou", "triste">>
T_SORRY   == <<"desculpa">>
T_LOVE_SORRY == <<"eu", "te", "amo", "desculpa">>
T_HERE    == <<"estou", "aqui", "pra", "voce">>
T_DEVOTED == <<"eu", "te", "amo", "estou", "aqui", "pra", "voce">>
T_STORY   == <<"hoje", "fui", "ao", "mercado", "e", "depois", "ao", "parque">>
T_LETTER  == <<"hoje", "fui", "ao", "mercado", "e", "depois", "ao", "parque",
               "com", "a", "minha", "irma", "e", "o", "cachorro">>

\* character length of a word of the vocabulary
WordLen(w) ==
    CASE w \in {"ok", "eu", "te"} -> 2
      [] w \in {"nan", "bom", "dia", "que", "faz", "sim", "amo", "pra"} -> 3
      [] w \in {"voce", "aqui"} -> 4
      [] w \in {"nunca", "ajuda", "tanto", "estou", "piada"} -> 5
      [] w \in {"triste"} -> 6
      [] w \in {"desculpa"} -> 8
      [] OTHER -> 6

RECURSIVE CharLen(_)
\* len(text) of the joined string: the words and one space between two words
CharLen(text) ==
    IF text = <<>> THEN 0
    ELSE WordLen(Head(text)) + (IF Len(text) > 1 THEN 1 ELSE 0) + CharLen(Tail(text))

-----------------------------------------------------------------------------
(* Regex matching over token sequences *)

Pat(words) == [words |-> words, anchor |-> "any"]
PatEnd(words) == [words |-> words, anchor |-> "end"]
PatWhole(words) == [words |-> words, anchor |-> "whole"]

\* pattern.search(text) is not None
Search(pat, text) ==
    LET n == Len(pat.words)
        m == Len(text)
    IN  CASE pat.anchor = "any" ->
               \E i \in 1..(m - n + 1) : SubSeq(text, i, i + n - 1) = pat.words
          [] pat.anchor = "end" ->
               m >= n /\ SubSeq(text, m - n + 1, m) = pat.words
          [] OTHER -> text = pat.words

SearchAny(pats, text) == \E p \in pats : Search(p, text)

-----------------------------------------------------------------------------
(* Pattern families.  Each family lists the source's patterns that a text   *)
(* over the model's vocabulary can match, with the alternations expanded.   *)

\* GottmanPatternDetector.CRITICISM_PATTERNS
CRITICISM_PATTERNS ==
    { Pat(<<"voce", "sempre">>), Pat(<<"voce", "nunca">>),
      Pat(<<"o", "problema", "e", "voce">>), Pat(<<"voce", "nao", "muda">>),
      Pat(<<"cansei", "de", "voce">>) }

\* GottmanPatternDetector.CONTEMPT_PATTERNS
CONTEMPT_PATTERNS ==
    { Pat(<<"grande", "coisa">>), Pat(<<"tanto", "faz">>), Pat(<<"que", "seja">>),
      Pat(<<"como", "quiser">>), Pat(<<"que", "surpresa">>), Pat(<<"que", "piada">>),
      Pat(<<"ai", "ai", "ai">>), Pat(<<"ta", "bom", "ne">>) }

\* GottmanPatternDetector.DEFENSIVENESS_PATTERNS
DEFENSIVENESS_PATTERNS ==
    { Pat(<<"mas", "voce", "tambem">>), Pat(<<"nao", "e", "minha", "culpa">>),
      Pat(<<"eu", "nao", "fiz", "nada">>), PatEnd(<<"e", "voce">>),
      Pat(<<"nao", "sou", "eu">>), Pat(<<"voce", "esta", "exagerando">>) }

\* GottmanPatternDetector.STONEWALLING_PHRASES
STONEWALLING_PHRASES ==
    { Pat(<<"tanto", "faz">>), Pat(<<"nao", "quero", "falar">>), Pat(<<"me", "deixa">>),
      Pat(<<"esquece">>), PatEnd(<<"chega">>), PatEnd(<<"ok">>), PatEnd(<<"ta">>),
      Pat(<<"sei", "la">>), Pat(<<"preciso", "de", "um", "tempo">>) }

\* PositivePatternDetector.REPAIR_PATTERNS
REPAIR_PATTERNS ==
    { Pat(<<"desculpa">>), Pat(<<"perdao">>), Pat(<<"me", "perdoa">>),
      Pat(<<"foi", "mal">>), Pat(<<"eu", "errei">>), Pat(<<"voce", "tem", "razao">>),
      Pat(<<"eu", "exagerei">>), Pat(<<"vamos", "resolver">>),
      Pat(<<"era", "brincadeira">>) }

\* PositivePatternDetector.AFFECTION_PATTERNS
AFFECTION_PATTERNS ==
    { Pat(<<"te", "amo">>), Pat(<<"amo", "voce">>), Pat(<<"saudade">>),
      Pat(<<"saudades">>), Pat(<<"te", "adoro">>), Pat(<<"meu", "amor">>),
      Pat(<<"querido">>), Pat(<<"querida">>), Pat(<<"te", "quero">>) }

\* PositivePatternDetector.GRATITUDE_PATTERNS
GRATITUDE_PATTERNS ==
    { Pat(<<"obrigado", "por">>), Pat(<<"obrigada", "por">>),
      Pat(<<"muito", "obrigado">>), Pat(<<"muito", "obrigada">>), Pat(<<"agradeco">>),
      Pat(<<"voce", "e", "o", "melhor">>), Pat(<<"sorte", "de", "ter", "voce">>) }

\* PositivePatternDetector.SUPPORT_PATTERNS
SUPPORT_PATTERNS ==
    { Pat(<<"estou", "aqui">>), Pat(<<"conte", "comigo">>), Pat(<<"posso", "ajudar">>),
      Pat(<<"estou", "com", "voce">>), Pat(<<"voce", "consegue">>), Pat(<<"entendo">>),
      Pat(<<"que", "dificil">>), Pat(<<"sinto", "muito">>) }

\* PositivePatternDetector.FUTURE_PLANNING_PATTERNS
FUTURE_PLANNING_PATTERNS ==
    { Pat(<<"vamos", "fazer">>), Pat(<<"vamos", "planejar">>), Pat(<<"vamos", "marcar">>),
      Pat(<<"nosso", "futuro">>), Pat(<<"quando", "a", "gente">>), Pat(<<"no", "futuro">>),
      Pat(<<"juntos">>), Pat(<<"nossa", "vida">>) }

\* PositivePatternDetector.ACTIVE_LISTENING_PATTERNS
ACTIVE_LISTENING_PATTERNS ==
    { Pat(<<"como", "foi">>), Pat(<<"me", "conta">>), Pat(<<"conte", "mais">>),
      Pat(<<"o", "que", "aconteceu">>), Pat(<<"como", "voce", "esta">>),
      Pat(<<"quer", "conversar">>), Pat(<<"estou", "ouvindo">>) }

\* PositivePatternDetector.DISCLOSURE_PATTERNS
DISCLOSURE_PATTERNS ==
    { Pat(<<"eu", "sinto">>), Pat(<<"estou", "com", "medo">>), Pat(<<"tenho", "medo">>),
      Pat(<<"estou", "preocupado">>), Pat(<<"estou", "preocupada">>), Pat(<<"me", "sinto">>),
      Pat(<<"estou", "triste">>), Pat(<<"estou", "feliz">>),
      Pat(<<"preciso", "te", "contar">>), Pat(<<"nunca", "contei">>) }

\* PositivePatternDetector.UNDERSTANDING_PATTERNS
UNDERSTANDING_PATTERNS ==
    { Pat(<<"faz", "sentido">>), Pat(<<"entendo", "voce">>), Pat(<<"te", "entendo">>),
      Pat(<<"concordo">>), Pat(<<"tem", "razao">>), Pat(<<"normal", "sentir">>) }

\* PositivePatternDetector.ASSURANCE_PATTERNS
ASSURANCE_PATTERNS ==
    { Pat(<<"sempre", "vou">>), Pat(<<"nunca", "vou", "te", "deixar">>),
      Pat(<<"estou", "aqui", "pra", "voce">>), Pat(<<"pode", "contar", "comigo">>),
      Pat(<<"vou", "te", "apoiar">>), Pat(<<"somos", "um", "time">>),
      Pat(<<"juntos", "nisso">>), Pat(<<"pra", "sempre">>) }

\* ResponsivenessAnalyzer.EMOTIONAL_MARKERS
EMOTIONAL_MARKERS ==
    { Pat(<<"estou", "triste">>), Pat(<<"estou", "feliz">>), Pat(<<"estou", "ansioso">>),
      Pat(<<"estou", "preocupado">>), Pat(<<"estou", "com", "medo">>),
      Pat(<<"me", "sinto">>), Pat(<<"sinto", "falta">>), Pat(<<"sinto", "medo">>),
      Pat(<<"estou", "muito">>), Pat(<<"preciso", "de", "voce">>),
      Pat(<<"nao", "aguento">>), Pat(<<"estou", "mal">>), Pat(<<"dia", "dificil">>) }

\* ResponsivenessAnalyzer.DISMISSIVE_PATTERNS (hm+ at its shortest two lengths)
DISMISSIVE_PATTERNS ==
    { PatWhole(<<"ok">>), PatWhole(<<"ta">>), PatWhole(<<"hm">>), PatWhole(<<"hmm">>),
      PatWhole(<<"ah">>), PatWhole(<<"entendi">>), PatWhole(<<"sei">>),
      PatWhole(<<"blz">>) }

\* every text of the model
AllTexts ==
    {T_EMPTY, T_NAN, T_NEUTRAL, T_CONTEMPT, T_CRITICISM, T_TANTO_FAZ, T_ATTACK,
     T_OK, T_SIM, T_SAD, T_SORRY, T_LOVE_SORRY, T_HERE, T_DEVOTED, T_STORY,
     T_LETTER}

\* the compiled families (re.compile(p, re.IGNORECASE) of each detector's __init__)
Compiled ==
    [criticism |-> CRITICISM_PATTERNS, contempt |-> CONTEMPT_PATTERNS,
     defensiveness |-> DEFENSIVENESS_PATTERNS, stonewalling |-> STONEWALLING_PHRASES,
     repair |-> REPAIR_PATTERNS, affection |-> AFFECTION_PATTERNS,
     gratitude |-> GRATITUDE_PATTERNS, support |-> SUPPORT_PATTERNS,
     future |-> FUTURE_PLANNING_PATTERNS, listening |-> ACTIVE_LISTENING_PATTERNS,
     disclosure |-> DISCLOSURE_PATTERNS, understanding |-> UNDERSTANDING_PATTERNS,
     assurance |-> ASSURANCE_PATTERNS, emotional |-> EMOTIONAL_MARKERS,
     dismissive |-> DISMISSIVE_PATTERNS]

\* the families with a pattern that is found in a text, for every text
FamiliesFound ==
    [t \in AllTexts |-> {f \in DOMAIN Compiled : SearchAny(Compiled[f], t)}]

\* "for pattern in self.<family>_re: if pattern.search(text)" finds a match
Found(family, text) == family \in FamiliesFound[text]

\* ResponsivenessAnalyzer.is_emotional_message
is_emotional_message(text) == Found("emotional", text)

\* ResponsivenessAnalyzer.is_dismissive_response
is_dismissive_response(text) ==
    \/ Found("dismissive", text)
    \/ CharLen(text) < 5

-----------------------------------------------------------------------------
(* The Oracle (LLMRelationshipAnalyzer).  A reply is what one call to the   *)
(* model yields: kind "raise" when client.messages.create raises, "garbled" *)
(* when the answer holds no JSON object, "ok" with the parsed fields.       *)
(* Confidences are in hundredths.                                          *)

NoReply == [kind |-> "none"]

\* LLMRelationshipAnalyzer.detect_contempt: _call_llm has no handler, so a
\* raising call propagates; a garbled answer parses to {} and the defaults.
LLM_detect_contempt(reply) ==
    IF reply.kind = "raise"
    THEN [raised |-> TRUE, is_contempt |-> FALSE, confidence |-> 0, severity |-> "mild"]
    ELSE IF reply.kind = "garbled"
    THEN [raised |-> FALSE, is_contempt |-> FALSE, confidence |-> 0, severity |-> "mild"]
    ELSE [raised |-> FALSE, is_contempt |-> reply.is_contempt,
          confidence |-> reply.confidence, severity |-> reply.severity]

\* LLMRelationshipAnalyzer.validate_repair_attempt
LLM_validate_repair_attempt(reply) ==
    IF reply.kind = "raise"
    THEN [raised |-> TRUE, is_genuine |-> TRUE, confidence |-> 50,
          responsibility_level |-> "partial", has_blame_shifting |-> FALSE]
    ELSE IF reply.kind = "garbled"
    THEN [raised |-> FALSE, is_genuine |-> TRUE, confidence |-> 50,
          responsibility_level |-> "partial", has_blame_shifting |-> FALSE]
    ELSE [raised |-> FALSE, is_genuine |-> reply.is_genuine,
          confidence |-> reply.confidence,
          responsibility_level |-> reply.responsibility_level,
          has_blame_shifting |-> reply.has_blame_shifting]

\* LLMRelationshipAnalyzer.assess_response_quality
LLM_assess_response_quality(reply) ==
    IF reply.kind = "raise"
    THEN [raised |-> TRUE, overall_quality |-> 50, is_dismissive |-> FALSE]
    ELSE IF reply.kind = "garbled"
    THEN [raised |-> FALSE, overall_quality |-> 50, is_dismissive |-> FALSE]
    ELSE [raised |-> FALSE, overall_quality |-> reply.overall_quality,
          is_dismissive |-> reply.is_dismissive]

\* LLMRelationshipAnalyzer.analyze_vulnerability_depth
LLM_analyze_vulnerability_depth(reply) ==
    IF reply.kind = "raise"
    THEN [raised |-> TRUE, depth_level |-> "surface", depth_score |-> 30]
    ELSE IF reply.kind = "garbled"
    THEN [raised |-> FALSE, depth_level |-> "surface", depth_score |-> 30]
    ELSE [raised |-> FALSE, depth_level |-> reply.depth_level,
          depth_score |-> reply.depth_score]

\* LLMRelationshipAnalyzer.assess_shared_meaning
LLM_assess_shared_meaning(reply) ==
    IF reply.kind = "raise"
    THEN [raised |-> TRUE, commitment_level |-> "casual", commitment_score |-> 30]
    ELSE IF reply.kind = "garbled"
    THEN [raised |-> FALSE, commitment_level |-> "casual", commitment_score |-> 30]
    ELSE [raised |-> FALSE, commitment_level |-> reply.commitment_level,
          commitment_score |-> reply.commitment_score]

\* the analysis_type each Oracle operation hands to _call_llm
ANALYSIS_TYPE ==
    [detect_contempt |-> "contempt_detection",
     assess_response_quality |-> "response_quality",
     validate_repair_attempt |-> "repair_validation",
     analyze_vulnerability_depth |-> "vulnerability_depth",
     assess_shared_meaning |-> "shared_meaning"]

\* the Oracle operations
OracleOperations == DOMAIN ANALYSIS_TYPE

\* CostTracker.__init__
NewCostTracker == [analyses |-> <<>>, costs_by_type |-> <<>>]

\* self.analyses.append(cost)
append_analyses(tracker, cost) ==
    [tracker EXCEPT !.analyses = Append(@, cost)]

\* self._costs_by_type[cost.analysis_type].append(cost), of a defaultdict(list)
append_costs_by_type(tracker, cost) ==
    [tracker EXCEPT !.costs_by_type =
        IF cost.analysis_type \in DOMAIN @
        THEN [@ EXCEPT ![cost.analysis_type] = Append(@, cost)]
        ELSE @ @@ (cost.analysis_type :> <<cost>>)]

\* CostTracker.log_analysis
log_analysis(tracker, cost) == append_costs_by_type(append_analyses(tracker, cost), cost)

\* CostTracker.get_cost_by_type: 'count' per analysis type
get_cost_by_type(tracker) ==
    [t \in DOMAIN tracker.costs_by_type |-> [count |-> Len(tracker.costs_by_type[t])]]

\* the AnalysisCost of the n-th invocation
AnalysisCost(analysis_type, n) == [analysis_type |-> analysis_type, invocation |-> n]

\* LLMRelationshipAnalyzer._call_llm, on the tracker: client.messages.create
\* raises before anything is logged, else the cost of the reply is logged
call_llm(tracker, analysis_type, reply, n) ==
    IF reply.kind = "raise" THEN tracker
    ELSE log_analysis(tracker, AnalysisCost(analysis_type, n))

-----------------------------------------------------------------------------
(* PatternMatch and the detectors.  A detector's Optional[PatternMatch] is  *)
(* a sequence of no or one match; a detector that consults the Oracle       *)
(* returns [raised, out].                                                   *)

NoSender == "<none>"
Horsemen == {"criticism", "contempt", "defensiveness", "stonewalling"}

\* PatternMatch(pattern_type, pattern_name, horseman, score_impact); sender is
\* filled in by analyze_message
PatternMatch(type, name, horseman, impact) ==
    [pattern_type |-> type, pattern_name |-> name, horseman |-> horseman,
     score_impact |-> impact, sender |-> NoSender]

Returned(out) == [raised |-> FALSE, out |-> out]
Raised == [raised |-> TRUE, out |-> <<>>]

\* GottmanPatternDetector.detect_criticism
detect_criticism(text) ==
    IF Found("criticism", text)
    THEN <<PatternMatch("negative", "criticism", "criticism", -5)>>
    ELSE <<>>

\* severity_scores.get(llm_result.severity, -8)
severity_scores(severity) ==
    CASE severity = "mild" -> -5
      [] severity = "moderate" -> -8
      [] severity = "severe" -> -10
      [] OTHER -> -8

\* detect_contempt confirming the Oracle's contempt only from confidence 0.7
detect_contempt_confirm_at_70(text, llm, reply) ==
    LET regex_match == Found("contempt", text)
        fallback == IF regex_match
                    THEN <<PatternMatch("negative", "contempt", "contempt", -8)>>
                    ELSE <<>>
        llm_result == LLM_detect_contempt(reply)
    IN  IF ~llm THEN Returned(fallback)
        ELSE IF llm_result.raised THEN Raised
        ELSE IF llm_result.is_contempt /\ llm_result.confidence >= 70
        THEN Returned(<<PatternMatch("negative", "contempt", "contempt",
                                     severity_scores(llm_result.severity))>>)
        ELSE IF regex_match /\ ~llm_result.is_contempt /\ llm_result.confidence >= 70
        THEN Returned(<<>>)
        ELSE Returned(fallback)

\* GottmanPatternDetector.detect_contempt
detect_contempt(text, llm, reply) ==
    LET regex_match == Found("contempt", text)
        fallback == IF regex_match
                    THEN <<PatternMatch("negative", "contempt", "contempt", -8)>>
                    ELSE <<>>
        llm_result == LLM_detect_contempt(reply)
    IN  IF ~llm THEN Returned(fallback)
        ELSE IF llm_result.raised THEN Raised
        ELSE IF llm_result.is_contempt /\ llm_result.confidence >= 60
        THEN Returned(<<PatternMatch("negative", "contempt", "contempt",
                                     severity_scores(llm_result.severity))>>)
        ELSE IF regex_match /\ ~llm_result.is_contempt /\ llm_result.confidence >= 70
        THEN Returned(<<>>)
        ELSE Returned(fallback)

\* GottmanPatternDetector.detect_defensiveness
detect_defensiveness(text) ==
    IF Found("defensiveness", text)
    THEN <<PatternMatch("negative", "defensiveness", "defensiveness", -4)>>
    ELSE <<>>

\* response_time_minutes = None
NoTime == -1

\* detect_stonewalling with the delay tested with >= 120
detect_stonewalling_from_120(text, response_time_minutes, is_after_conflict) ==
    IF Found("stonewalling", text)
    THEN <<PatternMatch("negative", "stonewalling", "stonewalling", -6)>>
    ELSE IF /\ is_after_conflict
            /\ response_time_minutes # NoTime /\ response_time_minutes # 0
            /\ response_time_minutes >= 120
    THEN <<PatternMatch("negative", "stonewalling", "stonewalling", -6)>>
    ELSE <<>>

\* detect_stonewalling whose match by delay alone carries no horseman
detect_stonewalling_delay_untagged(text, response_time_minutes, is_after_conflict) ==
    IF Found("stonewalling", text)
    THEN <<PatternMatch("negative", "stonewalling", "stonewalling", -6)>>
    ELSE IF /\ is_after_conflict
            /\ response_time_minutes # NoTime /\ response_time_minutes # 0
            /\ response_time_minutes > 120
    THEN <<PatternMatch("negative", "stonewalling", "None", -6)>>
    ELSE <<>>

\* GottmanPatternDetector.detect_stonewalling
detect_stonewalling(text, response_time_minutes, is_after_conflict) ==
    IF Found("stonewalling", text)
    THEN <<PatternMatch("negative", "stonewalling", "stonewalling", -6)>>
    ELSE IF /\ is_after_conflict
            /\ response_time_minutes # NoTime /\ response_time_minutes # 0
            /\ response_time_minutes > 120
    THEN <<PatternMatch("negative", "stonewalling", "stonewalling", -6)>>
    ELSE <<>>

\* GottmanPatternDetector.detect_all
gottman_detect_all(text, response_time_minutes, is_after_conflict, llm, reply) ==
    LET contempt == detect_contempt(text, llm, reply)
    IN  IF contempt.raised THEN Raised
        ELSE Returned(detect_criticism(text) \o contempt.out
                      \o detect_defensiveness(text)
                      \o detect_stonewalling(text, response_time_minutes,
                                             is_after_conflict))

\* PositivePatternDetector._detect_pattern
detect_pattern(text, family, name, score) ==
    IF Found(family, text)
    THEN <<PatternMatch("positive", name, "None", score)>>
    ELSE <<>>

\* detect_repair_attempt without the blame-shifting branch
detect_repair_attempt_no_demotion(text, llm, reply) ==
    LET regex_match == detect_pattern(text, "repair", "repair_attempt", 5)
        llm_result == LLM_validate_repair_attempt(reply)
        score == IF llm_result.is_genuine /\ llm_result.confidence >= 60
                 THEN (IF llm_result.responsibility_level = "full" THEN 7 ELSE 5)
                 ELSE 2
    IN  IF regex_match = <<>> THEN Returned(<<>>)
        ELSE IF ~llm THEN Returned(regex_match)
        ELSE IF llm_result.raised THEN Raised
        ELSE Returned(<<PatternMatch(IF score > 0 THEN "positive" ELSE "negative",
                                     IF score > 0 THEN "repair_attempt" ELSE "fake_repair",
                                     "None", score)>>)

\* detect_repair_attempt keeping the regex match's pattern_type and
\* pattern_name whatever the adjusted score
detect_repair_attempt_keeping_type(text, llm, reply) ==
    LET regex_match == detect_pattern(text, "repair", "repair_attempt", 5)
        llm_result == LLM_validate_repair_attempt(reply)
        score == IF llm_result.is_genuine /\ llm_result.confidence >= 60
                 THEN (IF llm_result.responsibility_level = "full" THEN 7 ELSE 5)
                 ELSE IF llm_result.has_blame_shifting THEN -2
                 ELSE 2
    IN  IF regex_match = <<>> THEN Returned(<<>>)
        ELSE IF ~llm THEN Returned(regex_match)
        ELSE IF llm_result.raised THEN Raised
        ELSE Returned(<<PatternMatch("positive", "repair_attempt", "None", score)>>)

\* PositivePatternDetector.detect_repair_attempt
detect_repair_attempt(text, llm, reply) ==
    LET regex_match == detect_pattern(text, "repair", "repair_attempt", 5)
        llm_result == LLM_validate_repair_attempt(reply)
        score == IF llm_result.is_genuine /\ llm_result.confidence >= 60
                 THEN (IF llm_result.responsibility_level = "full" THEN 7 ELSE 5)
                 ELSE IF llm_result.has_blame_shifting THEN -2
                 ELSE 2
    IN  IF regex_match = <<>> THEN Returned(<<>>)
        ELSE IF ~llm THEN Returned(regex_match)
        ELSE IF llm_result.raised THEN Raised
        ELSE Returned(<<PatternMatch(IF score > 0 THEN "positive" ELSE "negative",
                                     IF score > 0 THEN "repair_attempt" ELSE "fake_repair",
                                     "None", score)>>)

\* PositivePatternDetector.detect_all
positive_detect_all(text, llm, reply) ==
    LET repair == detect_repair_attempt(text, llm, reply)
    IN  IF repair.raised THEN Raised
        ELSE Returned(repair.out
                      \o detect_pattern(text, "affection", "affection", 3)
                      \o detect_pattern(text, "gratitude", "gratitude", 3)
                      \o detect_pattern(text, "support", "support", 4)
                      \o detect_pattern(text, "future", "future_planning", 3)
                      \o detect_pattern(text, "listening", "active_listening", 4)
                      \o detect_pattern(text, "disclosure", "disclosure", 4)
                      \o detect_pattern(text, "understanding", "understanding", 3)
                      \o detect_pattern(text, "assurance", "assurance", 4))

-----------------------------------------------------------------------------
(* RelationshipPatternAnalyzer *)

RECURSIVE WithSender(_, _)
\* match.sender = sender, for each match of a detector's list
WithSender(ms, sender) ==
    IF ms = <<>> THEN <<>>
    ELSE <<[Head(ms) EXCEPT !.sender = sender]>> \o WithSender(Tail(ms), sender)

\* the messages that make up context_str in analyze_message:
\* '\n'.join(context[-5:]) if context else (previous_message or "")
context_str(context, previous_message) ==
    IF context # <<>>
    THEN SubSeq(context, IF Len(context) > 5 THEN Len(context) - 4 ELSE 1, Len(context))
    ELSE IF previous_message = NoRow \/ previous_message = T_EMPTY THEN <<>>
    ELSE <<previous_message>>

\* the context argument of the analyze_message call in analyze_conversation:
\* the call passes none, so the parameter keeps its default None
ConversationContext == <<>>

\* RelationshipPatternAnalyzer.analyze_message, as analyze_conversation calls it
\* (context is not passed, so the Oracle's context is previous_message or "")
analyze_message(text, sender, response_time_minutes, is_after_conflict, previous_message, llm, creply, rreply, qreply) ==
    LET horsemen == gottman_detect_all(text, response_time_minutes,
                                       is_after_conflict, llm, creply)
        positive == positive_detect_all(text, llm, rreply)
        dismissive_context ==
            /\ previous_message # NoRow /\ previous_message # T_EMPTY
            /\ is_emotional_message(previous_message)
            /\ is_dismissive_response(text)
        quality == LLM_assess_response_quality(qreply)
        dismissive(impact) ==
            <<[PatternMatch("negative", "dismissive_response", "None", impact)
                 EXCEPT !.sender = sender]>>
    IN  IF horsemen.raised THEN Raised
        ELSE IF positive.raised THEN Raised
        ELSE LET found == WithSender(horsemen.out, sender)
                          \o WithSender(positive.out, sender)
             IN  IF ~dismissive_context THEN Returned(found)
                 ELSE IF ~llm THEN Returned(found \o dismissive(-2))
                 ELSE IF quality.raised THEN Raised
                 ELSE IF quality.is_dismissive
                 THEN Returned(found \o dismissive(IF quality.overall_quality < 30
                                                   THEN -3 ELSE -2))
                 ELSE Returned(found)

PositiveNames ==
    {"repair_attempt", "affection", "gratitude", "support", "future_planning",
     "active_listening", "disclosure", "understanding", "assurance"}

\* positive_ratio is the exact quotient <<numerator, denominator>>
Ratio(num, den) == <<num, den>>

\* PatternSummary() with the four horsemen counters set to 0; positive_counts
\* holds 0 for a name it has no key for (the code reads it with .get(name, 0))
EmptySummary ==
    [total_positive |-> 0, total_negative |-> 0, positive_ratio |-> Ratio(0, 1),
     four_horsemen_counts |-> [h \in Horsemen |-> 0],
     positive_counts |-> [n \in PositiveNames |-> 0],
     alerts |-> <<>>, matches |-> <<>>]

\* AddMatch counting in total_negative only the matches that carry a horseman
AddMatchHorsemenOnly(s, match) ==
    LET s1 == [s EXCEPT !.matches = Append(@, match)]
    IN  IF match.pattern_type = "positive"
        THEN [s1 EXCEPT !.total_positive = @ + 1,
                        !.positive_counts[match.pattern_name] = @ + 1]
        ELSE IF match.horseman # "None"
        THEN [s1 EXCEPT !.total_negative = @ + 1,
                        !.four_horsemen_counts[match.horseman] = @ + 1]
        ELSE s1

\* the loop body "for match in matches" for one match, on the summary
AddMatch(s, match) ==
    LET s1 == [s EXCEPT !.matches = Append(@, match)]
    IN  IF match.pattern_type = "positive"
        THEN [s1 EXCEPT !.total_positive = @ + 1,
                        !.positive_counts[match.pattern_name] = @ + 1]
        ELSE IF match.horseman # "None"
        THEN [s1 EXCEPT !.total_negative = @ + 1,
                        !.four_horsemen_counts[match.horseman] = @ + 1]
        ELSE [s1 EXCEPT !.total_negative = @ + 1]

RECURSIVE UpdateSummary(_, _)
\* "for match in matches: ..." on the summary
UpdateSummary(s, matches) ==
    IF matches = <<>> THEN s
    ELSE UpdateSummary(AddMatch(s, Head(matches)), Tail(matches))

\* conflict_decay = 5  # Messages until conflict context clears
ConflictDecayStart == 5

\* a match that is not positive and carries a horseman sets the conflict context
SetsConflict(matches) ==
    \E i \in 1..Len(matches) :
        matches[i].pattern_type # "positive" /\ matches[i].horseman # "None"

\* ConflictAfter with the conflict context set by every negative match
ConflictAfterAnyNegative(conflict, decay, matches) ==
    LET sets == \E i \in 1..Len(matches) : matches[i].pattern_type # "positive"
        c1 == IF sets THEN TRUE ELSE conflict
        d1 == IF sets THEN ConflictDecayStart ELSE decay
    IN  IF d1 > 0
        THEN [in_conflict |-> IF d1 - 1 = 0 THEN FALSE ELSE c1,
              conflict_decay |-> d1 - 1]
        ELSE [in_conflict |-> c1, conflict_decay |-> d1]

\* ConflictAfter without the reset of in_conflict when the decay reaches 0
ConflictAfterNeverCleared(conflict, decay, matches) ==
    LET c1 == IF SetsConflict(matches) THEN TRUE ELSE conflict
        d1 == IF SetsConflict(matches) THEN ConflictDecayStart ELSE decay
    IN  IF d1 > 0
        THEN [in_conflict |-> c1, conflict_decay |-> d1 - 1]
        ELSE [in_conflict |-> c1, conflict_decay |-> d1]

\* "Decay conflict context", at the end of the iteration of a processed row
DecayStep(conflict, decay) ==
    IF decay > 0
    THEN [in_conflict |-> IF decay - 1 = 0 THEN FALSE ELSE conflict,
          conflict_decay |-> decay - 1]
    ELSE [in_conflict |-> conflict, conflict_decay |-> decay]

\* in_conflict and conflict_decay after one processed row: the assignments of
\* the match loop, then "Decay conflict context"
ConflictAfter(conflict, decay, matches) ==
    LET c1 == IF SetsConflict(matches) THEN TRUE ELSE conflict
        d1 == IF SetsConflict(matches) THEN ConflictDecayStart ELSE decay
    IN  IF d1 > 0
        THEN [in_conflict |-> IF d1 - 1 = 0 THEN FALSE ELSE c1,
              conflict_decay |-> d1 - 1]
        ELSE [in_conflict |-> c1, conflict_decay |-> d1]

\* PositiveRatio with the ratio capped at the 5.0 default when nothing is negative
PositiveRatioCapped(total_positive, total_negative) ==
    IF total_negative > 0 THEN Ratio(total_positive, total_negative)
    ELSE IF total_positive > 0 /\ total_positive < 5 THEN Ratio(total_positive, 1)
    ELSE Ratio(5, 1)

\* "Calculate Gottman ratio"
PositiveRatio(total_positive, total_negative) ==
    IF total_negative > 0 THEN Ratio(total_positive, total_negative)
    ELSE IF total_positive > 0 THEN Ratio(total_positive, 1)
    ELSE Ratio(5, 1)

\* ratio < k, for the exact quotient (the denominator is positive)
RatioBelow(r, k) == r[1] < k * r[2]

Alert(type, severity, horseman, count) ==
    [type |-> type, severity |-> severity, horseman |-> horseman, count |-> count]

\* the order of summary.four_horsemen_counts.items()
HorsemenOrder == <<"criticism", "contempt", "defensiveness", "stonewalling">>

RECURSIVE HorsemanAlerts(_, _)
HorsemanAlerts(s, i) ==
    IF i > Len(HorsemenOrder) THEN <<>>
    ELSE LET h == HorsemenOrder[i]
             count == s.four_horsemen_counts[h]
         IN  (IF count >= 3
              THEN <<Alert("horseman_warning",
                           IF count >= 5 THEN "high" ELSE "medium", h, count)>>
              ELSE <<>>) \o HorsemanAlerts(s, i + 1)

\* _generate_alerts without the condition on total_negative
generate_alerts_any_negative(s) ==
    (IF RatioBelow(s.positive_ratio, 5)
     THEN <<Alert("ratio_warning",
                  IF RatioBelow(s.positive_ratio, 3) THEN "high" ELSE "medium",
                  "None", 0)>>
     ELSE <<>>)
    \o HorsemanAlerts(s, 1)
    \o (IF s.four_horsemen_counts["contempt"] >= 2
        THEN <<Alert("critical_warning", "critical", "None", 0)>>
        ELSE <<>>)

\* _generate_alerts with the critical warning from three contempt matches on
generate_alerts_critical_at_3(s) ==
    (IF RatioBelow(s.positive_ratio, 5) /\ s.total_negative > 0
     THEN <<Alert("ratio_warning",
                  IF RatioBelow(s.positive_ratio, 3) THEN "high" ELSE "medium",
                  "None", 0)>>
     ELSE <<>>)
    \o HorsemanAlerts(s, 1)
    \o (IF s.four_horsemen_counts["contempt"] >= 3
        THEN <<Alert("critical_warning", "critical", "None", 0)>>
        ELSE <<>>)

\* RelationshipPatternAnalyzer._generate_alerts
generate_alerts(s) ==
    (IF RatioBelow(s.positive_ratio, 5) /\ s.total_negative > 0
     THEN <<Alert("ratio_warning",
                  IF RatioBelow(s.positive_ratio, 3) THEN "high" ELSE "medium",
                  "None", 0)>>
     ELSE <<>>)
    \o HorsemanAlerts(s, 1)
    \o (IF s.four_horsemen_counts["contempt"] >= 2
        THEN <<Alert("critical_warning", "critical", "None", 0)>>
        ELSE <<>>)

\* the end of analyze_conversation: the ratio, then the alerts
Finished(s) ==
    LET s1 == [s EXCEPT !.positive_ratio =
                   PositiveRatio(s.total_positive, s.total_negative)]
    IN  [s1 EXCEPT !.alerts = generate_alerts(s1)]

-----------------------------------------------------------------------------
(* ScientificHealthScorer.  Scores are in tenths of a point and weights in   *)
(* hundredths, so a weighted sum is in thousandths of a point.               *)

\* round(x, 1) of a weighted sum x in thousandths, in tenths.  The sum is a
\* binary float a few ulps from x, so at a tie either neighbour can come out.
Round1(x) ==
    LET down == x \div 100
        rest == x % 100
    IN  IF rest < 50 THEN {down}
        ELSE IF rest > 50 THEN {down + 1}
        ELSE {down, down + 1}

\* ScientificHealthScorer.SCORE_LABELS, in the order of the dict
SCORE_LABELS ==
    << [low |-> 85, high |-> 100, pt |-> "Florescente", en |-> "Flourishing"],
       [low |-> 70, high |-> 84, pt |-> "Saudavel", en |-> "Healthy"],
       [low |-> 55, high |-> 69, pt |-> "Estavel", en |-> "Stable"],
       [low |-> 40, high |-> 54, pt |-> "Atencao", en |-> "Attention"],
       [low |-> 25, high |-> 39, pt |-> "Preocupante", en |-> "Concerning"],
       [low |-> 0, high |-> 24, pt |-> "Critico", en |-> "Critical"] >>

RECURSIVE LabelFrom(_, _)
\* "for (low, high), (pt, en) in self.SCORE_LABELS.items()" from entry i on
LabelFrom(i, score) ==
    IF i > Len(SCORE_LABELS) THEN <<"N/A", "N/A">>
    ELSE IF SCORE_LABELS[i].low * 1000 <= score /\ score <= SCORE_LABELS[i].high * 1000
    THEN <<SCORE_LABELS[i].pt, SCORE_LABELS[i].en>>
    ELSE LabelFrom(i + 1, score)

\* ScientificHealthScorer._get_label, of a score in thousandths
get_label(score) == LabelFrom(1, score)

\* ScientificHealthScorer.DIMENSION_WEIGHTS, by the key of the dimensions map
DIMENSION_WEIGHTS ==
    [emotionalConnection |-> 30, affectionCommitment |-> 25,
     communicationHealth |-> 25, partnershipEquity |-> 20]

\* total_score of calculate_emotional_connection, in thousandths
emotional_connection_total(c) ==
    c.responsiveness * 40 + c.vulnerability * 35 + c.attunement * 25

\* total_score of calculate_affection_commitment
affection_commitment_total(c) ==
    c.expressedAffection * 40 + c.commitmentSignals * 35 + c.appreciation * 25

\* total_score of calculate_communication_health with the weights 30/30/25/25
communication_health_total_misweighted(c) ==
    c.constructiveDialogue * 30 + c.conflictRepair * 30
    + c.emotionalSafety * 25 + c.supportiveResponses * 25

\* total_score of calculate_communication_health
communication_health_total(c) ==
    c.constructiveDialogue * 30 + c.conflictRepair * 30
    + c.emotionalSafety * 25 + c.supportiveResponses * 15

\* total_score of calculate_partnership_equity
partnership_equity_total(c) ==
    c.contributionBalance * 40 + c.coordination * 35 + c.emotionalReciprocity * 25

\* the keys of the components map of each dimension
ComponentNames ==
    [emotionalConnection |-> {"responsiveness", "vulnerability", "attunement"},
     affectionCommitment |-> {"expressedAffection", "commitmentSignals", "appreciation"},
     communicationHealth |-> {"constructiveDialogue", "conflictRepair",
                              "emotionalSafety", "supportiveResponses"},
     partnershipEquity |-> {"contributionBalance", "coordination",
                            "emotionalReciprocity"}]

\* total_score of the calculator of a dimension
TotalScore(dim, c) ==
    CASE dim = "emotionalConnection" -> emotional_connection_total(c)
      [] dim = "affectionCommitment" -> affection_commitment_total(c)
      [] dim = "communicationHealth" -> communication_health_total(c)
      [] OTHER -> partnership_equity_total(c)

\* DimensionScore(score=50.0): the components map is empty
NeutralDimension == [score |-> 500, components |-> <<>>]

\* overall_score of calculate_overall_score, in thousandths
OverallScore(dims) ==
    dims.emotionalConnection.score * DIMENSION_WEIGHTS.emotionalConnection
    + dims.affectionCommitment.score * DIMENSION_WEIGHTS.affectionCommitment
    + dims.communicationHealth.score * DIMENSION_WEIGHTS.communicationHealth
    + dims.partnershipEquity.score * DIMENSION_WEIGHTS.partnershipEquity

\* "Calculate confidence based on messages in scoring window", in hundredths
Confidence(window_messages) ==
    IF window_messages >= 500 THEN 95
    ELSE IF window_messages >= 200 THEN 85
    ELSE IF window_messages >= 100 THEN 75
    ELSE IF window_messages >= 30 THEN 60
    ELSE 40

\* the HealthScoreResult returned for an empty scoring window
InsufficientData ==
    [kind |-> "returned", overall |-> 500, label |-> "Dados Insuficientes",
     label_en |-> "Insufficient Data", confidence |-> 0, dimensions |-> <<>>]

-----------------------------------------------------------------------------
(* The component scorers.  Their arithmetic is on floats; the model keeps    *)
(* each value as an exact quotient <<numerator, denominator>> with a         *)
(* positive denominator, and rounds where the code rounds.                   *)

Q(n, d) == <<n, d>>
QInt(n) == <<n, 1>>
QAdd(a, b) == <<a[1] * b[2] + b[1] * a[2], a[2] * b[2]>>
QSub(a, b) == <<a[1] * b[2] - b[1] * a[2], a[2] * b[2]>>
QMul(a, b) == <<a[1] * b[1], a[2] * b[2]>>
QGeq(a, b) == a[1] * b[2] >= b[1] * a[2]
QLt(a, b) == a[1] * b[2] < b[1] * a[2]
QMin(a, b) == IF QLt(b, a) THEN b ELSE a
QMax(a, b) == IF QLt(a, b) THEN b ELSE a

\* round(x * scale) for a quotient x: the nearest integer, and at a tie either
\* neighbour, since the float the code rounds is a few ulps from x
QRound(x, scale) ==
    LET down == (x[1] * scale) \div x[2]
        rest == (x[1] * scale) % x[2]
    IN  IF 2 * rest < x[2] THEN {down}
        ELSE IF 2 * rest > x[2] THEN {down + 1}
        ELSE {down, down + 1}

\* 'score': round(score, 1), in tenths of a point
ScoreTenths(score) == QRound(score, 10)

\* the results a component scorer can return for a score: {'score': ...}
Scored(score) == {[score |-> t] : t \in ScoreTenths(score)}

\* "weeks = max(total_days / 7, 1); per_week = count / weeks"
PerWeek(count, total_days) ==
    IF total_days > 7 THEN Q(7 * count, total_days) ELSE QInt(count)

\* the piecewise curve of a per-week rate: 100 from the top rate on, then two
\* linear bands from 70 and from 40, then max(20, per_week * low_slope)
RateCurve(per_week, top, mid, low, mid_slope, low_slope, floor_slope) ==
    IF QGeq(per_week, QInt(top)) THEN QInt(100)
    ELSE IF QGeq(per_week, QInt(mid))
    THEN QAdd(QInt(70), QMul(QSub(per_week, QInt(mid)), mid_slope))
    ELSE IF QGeq(per_week, QInt(low))
    THEN QAdd(QInt(40), QMul(QSub(per_week, QInt(low)), low_slope))
    ELSE QMax(QInt(20), QMul(per_week, floor_slope))

\* _calc_expressed_affection with the top band reached from 4 a week on
calc_expressed_affection_top_at_4(count, total_days) ==
    Scored(RateCurve(PerWeek(count, total_days), 4, 4, 3,
                          Q(375, 100), Q(75, 10), QInt(13)))

\* ScientificHealthScorer._calc_expressed_affection, of the number of rows
\* that match AFFECTION_PATTERNS and the days between the first and last row
calc_expressed_affection(count, total_days) ==
    Scored(RateCurve(PerWeek(count, total_days), 15, 7, 3,
                          Q(375, 100), Q(75, 10), QInt(13)))

\* ScientificHealthScorer._calc_commitment_signals, of the number of rows that
\* match ASSURANCE_PATTERNS or FUTURE_PLANNING_PATTERNS
calc_commitment_signals(count, total_days) ==
    Scored(RateCurve(PerWeek(count, total_days), 8, 4, 2,
                          Q(75, 10), QInt(15), QInt(20)))

\* ScientificHealthScorer._calc_appreciation, of the number of rows that match
\* GRATITUDE_PATTERNS
calc_appreciation(count, total_days) ==
    Scored(RateCurve(PerWeek(count, total_days), 7, 3, 1,
                          Q(75, 10), QInt(15), QInt(40)))

\* ScientificHealthScorer._calc_constructive_dialogue
calc_constructive_dialogue(s) ==
    LET criticism_count == s.four_horsemen_counts["criticism"]
        defensiveness_count == s.four_horsemen_counts["defensiveness"]
        total_negative == criticism_count + defensiveness_count
        score == IF total_negative = 0 THEN 100
                 ELSE IF total_negative <= 2 THEN 100 - total_negative * 15
                 ELSE IF total_negative <= 5 THEN 70 - (total_negative - 2) * 10
                 ELSE IF 40 - (total_negative - 5) * 4 > 20
                 THEN 40 - (total_negative - 5) * 4 ELSE 20
    IN  {[score |-> score * 10, criticismCount |-> criticism_count,
          defensivenessCount |-> defensiveness_count]}

\* ScientificHealthScorer._calc_conflict_repair
calc_conflict_repair(s) ==
    LET repair_count == s.positive_counts["repair_attempt"]
        score == IF repair_count >= 5
                 THEN (IF 70 + repair_count * 3 < 100 THEN 70 + repair_count * 3 ELSE 100)
                 ELSE IF repair_count >= 2 THEN 60 + repair_count * 5
                 ELSE IF repair_count >= 1 THEN 50 + repair_count * 10
                 ELSE 50
    IN  {[score |-> score * 10, count |-> repair_count]}

\* _calc_emotional_safety with the contempt <= 3 band scored 60
calc_emotional_safety_band_60(s) ==
    LET contempt_count == s.four_horsemen_counts["contempt"]
        stonewalling_count == s.four_horsemen_counts["stonewalling"]
        weighted_negative == contempt_count * 2 + stonewalling_count
        score == IF weighted_negative = 0 THEN 100
                 ELSE IF contempt_count = 0 /\ stonewalling_count <= 2 THEN 80
                 ELSE IF contempt_count <= 1 THEN 60
                 ELSE IF contempt_count <= 3 THEN 60
                 ELSE IF 30 - contempt_count * 3 > 20 THEN 30 - contempt_count * 3
                 ELSE 20
    IN  {[score |-> score * 10, contemptCount |-> contempt_count,
          stonewallingCount |-> stonewalling_count]}

\* ScientificHealthScorer._calc_emotional_safety
calc_emotional_safety(s) ==
    LET contempt_count == s.four_horsemen_counts["contempt"]
        stonewalling_count == s.four_horsemen_counts["stonewalling"]
        weighted_negative == contempt_count * 2 + stonewalling_count
        score == IF weighted_negative = 0 THEN 100
                 ELSE IF contempt_count = 0 /\ stonewalling_count <= 2 THEN 80
                 ELSE IF contempt_count <= 1 THEN 60
                 ELSE IF contempt_count <= 3 THEN 40
                 ELSE IF 30 - contempt_count * 3 > 20 THEN 30 - contempt_count * 3
                 ELSE 20
    IN  {[score |-> score * 10, contemptCount |-> contempt_count,
          stonewallingCount |-> stonewalling_count]}

\* ScientificHealthScorer._calc_supportive_responses, of the number of rows
\* that match SUPPORT_PATTERNS or UNDERSTANDING_PATTERNS and the number of rows
calc_supportive_responses(count, total) ==
    LET rate == IF total > 0 THEN Q(count, total) ELSE QInt(0)
    IN  Scored(QMax(QInt(30), QMin(QInt(100), QMul(rate, QInt(2000)))))

\* ResponsivenessAnalyzer.calculate_response_quality: 'score'
calculate_response_quality(original_msg, response_msg, response_time_minutes) ==
    LET is_emotional == is_emotional_message(original_msg)
        is_dismissive == is_dismissive_response(response_msg)
        word_count == Len(response_msg)
        depth_score == IF word_count >= 15 THEN 100
                       ELSE IF word_count >= 8 THEN 70
                       ELSE IF word_count >= 3 THEN 40
                       ELSE 20
    IN  IF is_emotional /\ is_dismissive THEN 20
        ELSE IF is_emotional /\ response_time_minutes > 30
        THEN (IF depth_score - 30 > 20 THEN depth_score - 30 ELSE 20)
        ELSE depth_score

RECURSIVE SumSeq(_)
SumSeq(xs) == IF xs = <<>> THEN 0 ELSE Head(xs) + SumSeq(Tail(xs))

RECURSIVE MinSeq(_)
MinSeq(xs) ==
    IF Len(xs) = 1 THEN xs[1]
    ELSE LET m == MinSeq(Tail(xs)) IN IF xs[1] < m THEN xs[1] ELSE m

RECURSIVE MaxSeq(_)
MaxSeq(xs) ==
    IF Len(xs) = 1 THEN xs[1]
    ELSE LET m == MaxSeq(Tail(xs)) IN IF xs[1] > m THEN xs[1] ELSE m

\* ScientificHealthScorer._calc_responsiveness, of response_scores: the score
\* of each response, from calculate_response_quality or from the Oracle
calc_responsiveness(response_scores) ==
    IF response_scores = <<>> THEN {[score |-> 500]}
    ELSE Scored(Q(SumSeq(response_scores), Len(response_scores)))

\* _calc_vulnerability without the cap of min(100, ...) on base_score
calc_vulnerability_uncapped(disclosure_count, total_messages, depth_scores) ==
    IF total_messages = 0 THEN {[score |-> 500]}
    ELSE LET disclosure_rate == Q(disclosure_count, total_messages)
             base_score == QAdd(QMul(disclosure_rate, QInt(1400)), QInt(30))
             avg_depth == Q(SumSeq(depth_scores), Len(depth_scores))
         IN  IF depth_scores # <<>>
             THEN Scored(QAdd(QMul(base_score, Q(4, 10)), QMul(avg_depth, Q(6, 10))))
             ELSE Scored(base_score)

\* ScientificHealthScorer._calc_vulnerability, of the number of rows that
\* match DISCLOSURE_PATTERNS, the number of rows, and the Oracle's depth_scores
\* (empty with the Oracle disabled or without a disclosure)
calc_vulnerability(disclosure_count, total_messages, depth_scores) ==
    IF total_messages = 0 THEN {[score |-> 500]}
    ELSE LET disclosure_rate == Q(disclosure_count, total_messages)
             base_score == QMin(QInt(100),
                                QAdd(QMul(disclosure_rate, QInt(1400)), QInt(30)))
             avg_depth == Q(SumSeq(depth_scores), Len(depth_scores))
         IN  IF depth_scores # <<>>
             THEN Scored(QAdd(QMul(base_score, Q(4, 10)), QMul(avg_depth, Q(6, 10))))
             ELSE Scored(base_score)

\* ScientificHealthScorer._calc_attunement, of the number of rows that match
\* ACTIVE_LISTENING_PATTERNS and the number of rows
calc_attunement(listening_count, total_messages) ==
    IF total_messages = 0 THEN {[score |-> 500]}
    ELSE LET listening_rate == Q(listening_count, total_messages)
         IN  Scored(QMax(QInt(30),
                         QMin(QInt(100),
                              QAdd(QMul(listening_rate, Q(7000, 3)), QInt(30)))))

\* "100 - abs(min_pct - 50) * 2" with min_pct = round(min / total * 100), of
\* the counts per person; 70 when fewer than two persons have a count
Balances(counts) ==
    IF Len(counts) >= 2 /\ SumSeq(counts) > 0
    THEN {100 - (IF pct >= 50 THEN pct - 50 ELSE 50 - pct) * 2 :
             pct \in QRound(Q(MinSeq(counts) * 100, SumSeq(counts)), 1)}
    ELSE {70}

\* ScientificHealthScorer._calc_contribution_balance, of the rows per person
\* that mention a task, the rows per person, and the initiations per person
calc_contribution_balance(task_counts, msg_counts, init_counts) ==
    UNION {Scored(Q(task_balance * 40 + msg_balance * 35 + init_balance * 25, 100)) :
              <<task_balance, msg_balance, init_balance>> \in
                  Balances(task_counts) \X Balances(msg_counts) \X Balances(init_counts)}

\* ScientificHealthScorer._calc_coordination
calc_coordination(tasks_mentioned, tasks_completed) ==
    IF tasks_mentioned = 0 THEN {[score |-> 700]}
    ELSE Scored(QMin(QInt(100),
                     QAdd(QInt(50), QMul(Q(tasks_completed, tasks_mentioned), QInt(50)))))

\* the scoring of _calc_emotional_reciprocity, of pos_counts (the positive
\* matches other than repair_attempt of each person who has one) and total_neg;
\* 'ratio' is the number before the colon of f'{ratio:.1f}:1', in tenths
emotional_reciprocity(pos_counts, total_neg) ==
    LET balance == IF Len(pos_counts) < 2 \/ SumSeq(pos_counts) = 0 THEN QInt(100)
                   ELSE Q(MinSeq(pos_counts) * 100, MaxSeq(pos_counts))
        total_pos == SumSeq(pos_counts)
        ratio == IF total_neg > 0 THEN Q(total_pos, total_neg)
                 ELSE IF total_pos > 0 THEN QInt(total_pos) ELSE QInt(5)
        balance_score == QAdd(QInt(50), QMul(balance, Q(1, 2)))
        ratio_score == QMin(QInt(100), QMul(ratio, QInt(20)))
        score == QAdd(QMul(ratio_score, Q(6, 10)), QMul(balance_score, Q(4, 10)))
    IN  {[score |-> t, ratio |-> r, positiveCount |-> total_pos,
          negativeCount |-> total_neg] :
             <<t, r>> \in ScoreTenths(score) \X QRound(ratio, 10)}

\* the matches of a summary that a person sent and that are counted as
\* positive (other than repair_attempt) or as negative
CountedMatches(s, sender, positive) ==
    Cardinality({i \in 1..Len(s.matches) :
        /\ s.matches[i].sender = sender
        /\ IF positive
           THEN /\ s.matches[i].pattern_type = "positive"
                /\ s.matches[i].pattern_name # "repair_attempt"
           ELSE s.matches[i].pattern_type # "positive"})

\* ScientificHealthScorer._calc_emotional_reciprocity, of the summary that
\* analyze_conversation returns
calc_emotional_reciprocity(s) ==
    LET a == CountedMatches(s, "A", TRUE)
        b == CountedMatches(s, "B", TRUE)
        pos_counts == (IF a > 0 THEN <<a>> ELSE <<>>) \o (IF b > 0 THEN <<b>> ELSE <<>>)
        total_neg == CountedMatches(s, "A", FALSE) + CountedMatches(s, "B", FALSE)
    IN  emotional_reciprocity(pos_counts, total_neg)

\* components.get(name, {}).get(field, default), of a components map whose
\* values are the records the component scorers return
GetDetail(components, name, field, default) ==
    IF name \in DOMAIN components /\ field \in DOMAIN components[name]
    THEN components[name][field] ELSE default

\* the DimensionScores a calculator can return for the results of its
\* component scorers: score = round(total_score, 1)
DimensionScore(dim, components) ==
    {[score |-> t, components |-> components] :
        t \in Round1(TotalScore(dim, [n \in DOMAIN components |-> components[n].score]))}

\* ScientificHealthScorer._compile_insights: the dimension each strength and
\* each opportunity names, in the order they are appended
compile_insights(recent) ==
    LET strength(key, name) ==
            IF recent[key].score >= 700 THEN <<name>> ELSE <<>>
        opportunity(key, name) ==
            IF recent[key].score < 700 /\ recent[key].score < 550 THEN <<name>> ELSE <<>>
        comm == recent["communication"]
        contempt_opportunity ==
            IF /\ comm.score < 700 /\ comm.score < 550
               /\ GetDetail(comm.components, "emotionalSafety", "contemptCount", 0) > 0
            THEN <<"communicationHealth">> ELSE <<>>
    IN  [strengths |->
             strength("emotionalConnection", "emotionalConnection")
             \o strength("affectionCommitment", "affectionCommitment")
             \o strength("communication", "communicationHealth")
             \o strength("partnershipEquity", "partnershipEquity"),
         opportunities |->
             opportunity("emotionalConnection", "emotionalConnection")
             \o opportunity("affectionCommitment", "affectionCommitment")
             \o contempt_opportunity
             \o opportunity("partnershipEquity", "partnershipEquity")]

\* ScientificHealthScorer._compile_alerts: the pattern of each alert, in the
\* order they are appended; the ratio is read back from the component's
\* 'ratio' string, '5:1' when the component is missing
compile_alerts(recent) ==
    LET comm == recent["communication"].components
        partner == recent["partnershipEquity"].components
    IN  (IF GetDetail(comm, "emotionalSafety", "contemptCount", 0) >= 2
         THEN <<"contempt">> ELSE <<>>)
        \o (IF GetDetail(comm, "constructiveDialogue", "criticismCount", 0) >= 3
            THEN <<"criticism">> ELSE <<>>)
        \o (IF GetDetail(comm, "constructiveDialogue", "defensivenessCount", 0) >= 3
            THEN <<"defensiveness">> ELSE <<>>)
        \o (IF GetDetail(partner, "emotionalReciprocity", "ratio", 50) < 30
            THEN <<"low_positivity_ratio">> ELSE <<>>)

\* ScientificHealthScorer.calculate_emotional_connection, of what its
\* component scorers read in the window: the text rows, the score of each
\* response, the rows with a disclosure, the rows with active listening and
\* the Oracle's depth scores
calculate_emotional_connection(w) ==
    IF w.text = 0 THEN {NeutralDimension}
    ELSE UNION {DimensionScore("emotionalConnection",
                               [responsiveness |-> c[1], vulnerability |-> c[2],
                                attunement |-> c[3]]) :
                   c \in calc_responsiveness(w.response_scores)
                         \X calc_vulnerability(w.disclosure, w.text, w.depth_scores)
                         \X calc_attunement(w.listening, w.text)}

\* ScientificHealthScorer.calculate_affection_commitment, of the text rows,
\* the days they span and the rows that match each of its families
calculate_affection_commitment(w) ==
    IF w.text = 0 THEN {NeutralDimension}
    ELSE UNION {DimensionScore("affectionCommitment",
                               [expressedAffection |-> c[1], commitmentSignals |-> c[2],
                                appreciation |-> c[3]]) :
                   c \in calc_expressed_affection(w.affection, w.total_days)
                         \X calc_commitment_signals(w.commitment, w.total_days)
                         \X calc_appreciation(w.gratitude, w.total_days)}

\* ScientificHealthScorer.calculate_communication_health, of the text rows,
\* the summary analyze_conversation returns for them, and the rows that match
\* SUPPORT_PATTERNS or UNDERSTANDING_PATTERNS
calculate_communication_health(w) ==
    IF w.text = 0 THEN {NeutralDimension}
    ELSE UNION {DimensionScore("communicationHealth",
                               [constructiveDialogue |-> c[1], conflictRepair |-> c[2],
                                emotionalSafety |-> c[3], supportiveResponses |-> c[4]]) :
                   c \in calc_constructive_dialogue(w.summary)
                         \X calc_conflict_repair(w.summary)
                         \X calc_emotional_safety(w.summary)
                         \X calc_supportive_responses(w.supportive, w.text)}

\* ScientificHealthScorer.calculate_partnership_equity, of the text rows, the
\* counts per person its balance reads, the task words and completion markers,
\* and the positive and negative matches of the summary
calculate_partnership_equity(w) ==
    IF w.text = 0 THEN {NeutralDimension}
    ELSE UNION {DimensionScore("partnershipEquity",
                               [contributionBalance |-> c[1], coordination |-> c[2],
                                emotionalReciprocity |-> c[3]]) :
                   c \in calc_contribution_balance(w.task_counts, w.msg_counts,
                                                   w.init_counts)
                         \X calc_coordination(w.tasks_mentioned, w.tasks_completed)
                         \X emotional_reciprocity(w.pos_counts, w.total_neg)}

\* calculate_overall_score on a non-empty window, up to the construction of
\* the result: the values of its locals when line 1516 raises NameError
overall_score_locals(ec, ac, ch, pe) ==
    LET recent == [emotionalConnection |-> ec, affectionCommitment |-> ac,
                   communication |-> ch, partnershipEquity |-> pe]
        overall_score == OverallScore([emotionalConnection |-> ec,
                                       affectionCommitment |-> ac,
                                       communicationHealth |-> ch,
                                       partnershipEquity |-> pe])
    IN  [recent |-> recent, overall_score |-> overall_score,
         label |-> get_label(overall_score),
         all_insights |-> compile_insights(recent),
         alerts |-> compile_alerts(recent)]

-----------------------------------------------------------------------------
(* The three machines of the model are the conversation analyser, a single  *)
(* call of an operation, and the scorer; a specification runs one of them   *)
(* and leaves the others idle.                                              *)

\* the conversation analyser is not running
ConvIdle ==
    /\ use_llm = FALSE
    /\ pc = "idle"
    /\ prev_message = NoRow
    /\ prev_sender = NoSender
    /\ in_conflict = FALSE
    /\ conflict_decay = 0
    /\ summary = EmptySummary
    /\ log = <<>>

\* no operation is called on its own
CallIdle == call = [op |-> "none"] /\ result = [op |-> "none"]

NoRollup == [label |-> "<none>"]
NoOutcome == [kind |-> "<none>"]

\* calculate_overall_score is not running
ScoreIdle ==
    /\ window = [rows |-> 0, text |-> 0]
    /\ scorer_llm = FALSE
    /\ spc = "idle"
    /\ dimensions = <<>>
    /\ rollup = NoRollup
    /\ outcome = NoOutcome

\* the Oracle is not in use
OracleIdle ==
    /\ cost_tracker = NewCostTracker
    /\ invoked = <<>>
    /\ request = [op |-> "none"]
    /\ tasks = <<>>
    /\ analysis = [kind |-> "<none>"]

-----------------------------------------------------------------------------
(* analyze_conversation as a state machine: one step per row of df_sorted   *)


\* the texts a row of the conversation can hold
Corpus ==
    {T_EMPTY, T_NAN, T_NEUTRAL, T_CONTEMPT, T_ATTACK, T_OK, T_SAD,
     T_LOVE_SORRY, T_DEVOTED}

\* the Oracle's replies in a conversation
ContemptReplies ==
    { [kind |-> "raise"],
      [kind |-> "ok", is_contempt |-> TRUE, confidence |-> 90, severity |-> "severe"],
      [kind |-> "ok", is_contempt |-> FALSE, confidence |-> 80, severity |-> "mild"] }

RepairReplies ==
    { [kind |-> "raise"],
      [kind |-> "ok", is_genuine |-> TRUE, confidence |-> 90,
       responsibility_level |-> "full", has_blame_shifting |-> FALSE],
      [kind |-> "ok", is_genuine |-> FALSE, confidence |-> 80,
       responsibility_level |-> "none", has_blame_shifting |-> TRUE] }

QualityReplies ==
    { [kind |-> "raise"],
      [kind |-> "ok", overall_quality |-> 20, is_dismissive |-> TRUE],
      [kind |-> "ok", overall_quality |-> 60, is_dismissive |-> FALSE] }

\* str(prev_msg) if pd.notna(prev_msg) else None
PreviousMessageArg(prev) == IF prev = T_NAN THEN NoRow ELSE prev

\* response_time: None for the first row, else the minutes since the row before
ResponseTime(prev, gap) == IF prev = NoRow THEN NoTime ELSE gap

\* what analyze_message returns for a row in the current state
RowAnalysis(sender, text, gap, creply, rreply, qreply) ==
    analyze_message(text, sender, ResponseTime(prev_message, gap), in_conflict,
                    PreviousMessageArg(prev_message), use_llm, creply, rreply, qreply)

\* the replies the Oracle can give to the calls a row causes; a call that the
\* row does not cause has NoReply
RowReplies(text) ==
    IF ~use_llm THEN {<<NoReply, NoReply, NoReply>>}
    ELSE ContemptReplies
         \X (IF Found("repair", text) THEN RepairReplies ELSE {NoReply})
         \X (IF /\ PreviousMessageArg(prev_message) \notin {NoRow, T_EMPTY}
                /\ is_emotional_message(prev_message)
                /\ is_dismissive_response(text)
             THEN QualityReplies ELSE {NoReply})

ConvInit ==
    /\ use_llm \in BOOLEAN
    /\ pc = "loop"
    /\ prev_message = NoRow
    /\ prev_sender = NoSender
    /\ in_conflict = FALSE
    /\ conflict_decay = 0
    /\ summary = EmptySummary
    /\ log = <<>>

\* "if not text or text == 'nan': continue"
Skipped(text) == text = T_EMPTY \/ text = T_NAN

\* SkipRowOf with the skipped row taking one step of the conflict decay
SkipRowOfDecaying(max) ==
    /\ pc = "loop" /\ Len(log) < max
    /\ \E sender \in Senders, text \in {T_EMPTY, T_NAN} :
          /\ Skipped(text)
          /\ prev_message' = text
          /\ prev_sender' = sender
          /\ log' = Append(log, [skipped |-> TRUE, is_after_conflict |-> in_conflict,
                                 horsemen |-> {}, response_time |-> NoTime,
                                 raised |-> "None"])
    /\ in_conflict' = DecayStep(in_conflict, conflict_decay).in_conflict
    /\ conflict_decay' = DecayStep(in_conflict, conflict_decay).conflict_decay
    /\ UNCHANGED <<use_llm, pc, summary>>

\* a row whose text is empty or 'nan': only the shifted columns move on
SkipRowOf(max) ==
    /\ pc = "loop" /\ Len(log) < max
    /\ \E sender \in Senders, text \in {T_EMPTY, T_NAN} :
          /\ Skipped(text)
          /\ prev_message' = text
          /\ prev_sender' = sender
          /\ log' = Append(log, [skipped |-> TRUE, is_after_conflict |-> in_conflict,
                                 horsemen |-> {}, response_time |-> NoTime,
                                 raised |-> "None"])
    /\ UNCHANGED <<use_llm, pc, in_conflict, conflict_decay, summary>>

\* the horsemen tags among the matches of one row
HorsemenOf(matches) ==
    {matches[i].horseman : i \in {j \in 1..Len(matches) : matches[j].horseman # "None"}}

\* one iteration of the loop for a row that is analysed
ProcessRowOf(senders, texts, gaps, max) ==
    /\ pc = "loop" /\ Len(log) < max
    /\ \E sender \in senders, text \in texts, gap \in gaps :
          /\ ~Skipped(text)
          /\ \E replies \in RowReplies(text) :
                LET res == RowAnalysis(sender, text, gap, replies[1], replies[2], replies[3])
                    after == ConflictAfter(in_conflict, conflict_decay, res.out)
                IN  /\ ~res.raised
                    /\ summary' = UpdateSummary(summary, res.out)
                    /\ in_conflict' = after.in_conflict
                    /\ conflict_decay' = after.conflict_decay
                    /\ log' = Append(log, [skipped |-> FALSE,
                                           is_after_conflict |-> in_conflict,
                                           horsemen |-> HorsemenOf(res.out),
                                           response_time |-> ResponseTime(prev_message, gap),
                                           raised |-> "None"])
          /\ prev_message' = text
          /\ prev_sender' = sender
    /\ UNCHANGED <<use_llm, pc>>

\* the first Oracle operation of a row that raises: analyze_message consults
\* the Oracle on contempt, then on the repair, then on the response quality
FirstRaising(replies) ==
    IF replies[1].kind = "raise" THEN "detect_contempt"
    ELSE IF replies[2].kind = "raise" THEN "validate_repair_attempt"
    ELSE "assess_response_quality"

\* an Oracle call of the row raises: the exception leaves analyze_conversation
ProcessRowRaises ==
    /\ pc = "loop" /\ Len(log) < MaxMsgs
    /\ UNCHANGED <<callVars, scoreVars, oracleVars>>
    /\ \E sender \in Senders, text \in Corpus, gap \in Gaps :
          /\ ~Skipped(text)
          /\ \E replies \in RowReplies(text) :
                /\ RowAnalysis(sender, text, gap, replies[1], replies[2], replies[3]).raised
                /\ log' = Append(log, [skipped |-> FALSE,
                                       is_after_conflict |-> in_conflict,
                                       horsemen |-> {},
                                       response_time |-> ResponseTime(prev_message, gap),
                                       raised |-> FirstRaising(replies)])
    /\ pc' = "raised"
    /\ UNCHANGED <<use_llm, prev_message, prev_sender, in_conflict, conflict_decay,
                   summary>>

\* the rows are exhausted: the ratio, the alerts, return summary
Return ==
    /\ pc = "loop"
    /\ summary' = Finished(summary)
    /\ pc' = "done"
    /\ UNCHANGED <<use_llm, prev_message, prev_sender, in_conflict, conflict_decay, log>>

SkipRow == SkipRowOf(MaxMsgs) /\ UNCHANGED <<callVars, scoreVars, oracleVars>>

ProcessRow == ProcessRowOf(Senders, Corpus, Gaps, MaxMsgs) /\ UNCHANGED <<callVars, scoreVars, oracleVars>>

Finish == Return /\ UNCHANGED <<callVars, scoreVars, oracleVars>>

-----------------------------------------------------------------------------
(* analyze_conversation over a longer stream of analysed rows, without the  *)
(* Oracle, whose reply delays do not exceed 120 minutes                      *)

\* rows of a conversation in the specification SpecDecay
DecayLen == 10

DecaySenders == {"A"}

DecayCorpus == {T_NEUTRAL, T_CONTEMPT}

\* minutes between a row and the row before it: none above 120
DecayGaps == {5, 120}

DecayInit ==
    /\ CallIdle /\ ScoreIdle /\ OracleIdle
    /\ use_llm = FALSE
    /\ pc = "loop"
    /\ prev_message = NoRow
    /\ prev_sender = NoSender
    /\ in_conflict = FALSE
    /\ conflict_decay = 0
    /\ summary = EmptySummary
    /\ log = <<>>

DecayRow ==
    ProcessRowOf(DecaySenders, DecayCorpus, DecayGaps, DecayLen) /\ UNCHANGED <<callVars, scoreVars, oracleVars>>

DecayFinish == Return /\ Len(log) = DecayLen /\ UNCHANGED <<callVars, scoreVars, oracleVars>>

-----------------------------------------------------------------------------
(* analyze_conversation over a stream of analysed rows, without the Oracle, *)
(* whose reply delays lie on both sides of 120 minutes                       *)

\* rows of a conversation in the specification SpecDelay
DelayLen == 7

\* minutes between a row and the row before it
DelayGaps == {120, 121}

DelayRow ==
    ProcessRowOf(DecaySenders, DecayCorpus, DelayGaps, DelayLen) /\ UNCHANGED <<callVars, scoreVars, oracleVars>>

DelayFinish == Return /\ Len(log) = DelayLen /\ UNCHANGED <<callVars, scoreVars, oracleVars>>

-----------------------------------------------------------------------------
(* Single calls: the Oracle-consulting detectors over every reply of the    *)
(* Oracle, and _get_label over scores around the edges of its ranges         *)

DetectTexts == {T_NEUTRAL, T_CONTEMPT, T_SORRY, T_LOVE_SORRY}

\* Oracle confidences, in hundredths, around the thresholds 0.6 and 0.7
Confidences == {0, 59, 60, 69, 70, 100}

\* "extreme" is a severity the severity_scores table has no key for
Severities == {"mild", "moderate", "severe", "extreme"}

ContemptReplyDomain ==
    {[kind |-> "raise"], [kind |-> "garbled"]}
    \cup [kind : {"ok"}, is_contempt : BOOLEAN, confidence : Confidences,
          severity : Severities]

RepairReplyDomain ==
    {[kind |-> "raise"], [kind |-> "garbled"]}
    \cup [kind : {"ok"}, is_genuine : BOOLEAN, confidence : Confidences,
          responsibility_level : {"full", "partial", "none"},
          has_blame_shifting : BOOLEAN]

\* overall scores, in thousandths: the edges of the ranges of SCORE_LABELS and
\* values between two ranges
LabelScores ==
    {0, 24000, 24500, 25000, 39000, 39300, 40000, 54000, 54995, 55000,
     69000, 69300, 70000, 84000, 84500, 85000, 100000}

\* the text argument of analyze_message: NoRow is text=None
MessageTexts == {NoRow, T_EMPTY, T_OK, T_NEUTRAL}

\* previous_message: None, an emotional message, a neutral one
PreviousMessages == {NoRow, T_SAD, T_NEUTRAL}

\* response_time_minutes: None, or minutes either side of the 120 of
\* detect_stonewalling
ResponseTimes == {NoTime, 5, 120, 121}

\* A scoring window, by what the scorers read in it.  The rows that match a
\* family match that family alone, so each gives one match of the summary.
\* the negative matches of a window: rows per horseman, and the negative
\* matches without a horseman (dismissive_response, fake_repair)
WindowNegatives ==
    { [criticism |-> 0, defensiveness |-> 0, contempt |-> 0, stonewalling |-> 0, other |-> 0],
      [criticism |-> 12, defensiveness |-> 0, contempt |-> 0, stonewalling |-> 0, other |-> 0],
      [criticism |-> 3, defensiveness |-> 0, contempt |-> 3, stonewalling |-> 0, other |-> 0],
      [criticism |-> 2, defensiveness |-> 3, contempt |-> 1, stonewalling |-> 0, other |-> 0],
      [criticism |-> 0, defensiveness |-> 2, contempt |-> 2, stonewalling |-> 3, other |-> 1],
      [criticism |-> 0, defensiveness |-> 0, contempt |-> 3, stonewalling |-> 0, other |-> 0],
      [criticism |-> 20, defensiveness |-> 0, contempt |-> 0, stonewalling |-> 0, other |-> 0],
      [criticism |-> 21, defensiveness |-> 0, contempt |-> 0, stonewalling |-> 0, other |-> 0] }

\* rows that match the affection family
WindowAffection == {0, 5, 7, 20, 58, 60, 62, 65}

\* rows that match assurance or future planning, and rows that match gratitude
WindowCommitment ==
    { [commitment |-> 0, gratitude |-> 0], [commitment |-> 3, gratitude |-> 2],
      [commitment |-> 4, gratitude |-> 3] }

\* rows with a disclosure, with active listening, with support or understanding
WindowOtherPositives ==
    { [disclosure |-> 0, listening |-> 0, supportive |-> 0],
      [disclosure |-> 5, listening |-> 3, supportive |-> 5] }

\* who wrote the rows: both persons alike, one of them nearly all, one alone
WindowPersons == {"balanced", "unbalanced", "alone"}

\* the window of the given statistics
Window(text, total_days, affection, c, o, n, repair, quality, persons) ==
    LET positives == affection + c.commitment + c.gratitude
                     + o.disclosure + o.listening + o.supportive
        negatives == n.criticism + n.defensiveness + n.contempt + n.stonewalling
                     + n.other
    IN  [text |-> text, total_days |-> total_days,
         affection |-> affection, commitment |-> c.commitment,
         gratitude |-> c.gratitude, disclosure |-> o.disclosure,
         listening |-> o.listening, supportive |-> o.supportive,
         response_scores |-> <<quality>>, depth_scores |-> <<>>,
         summary |-> [EmptySummary EXCEPT
                        !.four_horsemen_counts =
                            [criticism |-> n.criticism, defensiveness |-> n.defensiveness,
                             contempt |-> n.contempt, stonewalling |-> n.stonewalling],
                        !.positive_counts["repair_attempt"] = repair,
                        !.total_positive = positives + repair,
                        !.total_negative = negatives],
         pos_counts |-> IF positives = 0 THEN <<>>
                        ELSE IF persons = "balanced" /\ positives > 1
                        THEN <<positives \div 2, positives - positives \div 2>>
                        ELSE <<positives>>,
         total_neg |-> negatives,
         task_counts |-> CASE persons = "balanced" -> <<5, 5>>
                           [] persons = "unbalanced" -> <<1, 9>>
                           [] OTHER -> <<>>,
         msg_counts |-> CASE persons = "balanced" -> <<text \div 2, text - text \div 2>>
                          [] persons = "unbalanced" -> <<1, text - 1>>
                          [] OTHER -> <<text>>,
         init_counts |-> CASE persons = "balanced" -> <<15, 15>>
                           [] persons = "unbalanced" -> <<1, 2>>
                           [] OTHER -> <<1>>,
         tasks_mentioned |-> IF persons = "alone" THEN 0 ELSE 10,
         tasks_completed |-> IF persons = "balanced" THEN 5 ELSE 0]

\* a window whose rows are all media: no text row for any calculator
NoTextWindow ==
    Window(0, 0, 0, [commitment |-> 0, gratitude |-> 0],
           [disclosure |-> 0, listening |-> 0, supportive |-> 0],
           [criticism |-> 0, defensiveness |-> 0, contempt |-> 0, stonewalling |-> 0,
            other |-> 0], 0, 20, "alone")

\* the rows of a window that match a family
MatchingRows(w) ==
    w.affection + w.commitment + w.gratitude + w.disclosure + w.listening
    + w.supportive + w.summary.total_negative
    + w.summary.positive_counts["repair_attempt"]

\* the pattern families whose match makes a component scorer count a row: the
\* "Pattern Ownership" of the scorer, by the key of the component
ComponentPatterns ==
    [vulnerability |-> {"disclosure"}, attunement |-> {"listening"},
     expressedAffection |-> {"affection"},
     commitmentSignals |-> {"assurance", "future"},
     appreciation |-> {"gratitude"},
     constructiveDialogue |-> {"criticism", "defensiveness"},
     conflictRepair |-> {"repair"},
     emotionalSafety |-> {"contempt", "stonewalling"},
     supportiveResponses |-> {"support", "understanding"}]

\* the dimension whose calculator holds each of these components
ComponentDimension ==
    [vulnerability |-> "emotionalConnection", attunement |-> "emotionalConnection",
     expressedAffection |-> "affectionCommitment",
     commitmentSignals |-> "affectionCommitment",
     appreciation |-> "affectionCommitment",
     constructiveDialogue |-> "communicationHealth",
     conflictRepair |-> "communicationHealth",
     emotionalSafety |-> "communicationHealth",
     supportiveResponses |-> "communicationHealth"]

\* the components that count a row of this text without the Oracle: "for
\* pattern in patterns_re: if pattern.search(text): count += 1; break" in the
\* scorers that read the rows, the matches of the detectors in the scorers
\* that read the analyser's summary
counting_components(text) ==
    {c \in DOMAIN ComponentPatterns : \E f \in ComponentPatterns[c] : Found(f, text)}

\* the contempt judgments GottmanPatternDetector.detect_contempt requests from
\* the Oracle for one message: "if self.use_llm", whatever the regex found
contempt_oracle_calls(text, llm) == IF llm THEN 1 ELSE 0

RECURSIVE conversation_contempt_calls(_, _)
\* the contempt judgments one analyze_conversation pass requests for the rows
\* of a window, none of them failing: one detect_contempt per row that is not
\* skipped
conversation_contempt_calls(rows, llm) ==
    IF rows = <<>> THEN 0
    ELSE (IF Head(rows) = T_EMPTY \/ Head(rows) = T_NAN THEN 0
          ELSE contempt_oracle_calls(Head(rows), llm))
         + conversation_contempt_calls(Tail(rows), llm)

\* the contempt judgments of one calculate_overall_score run on a window of
\* text rows: calculate_communication_health and, for
\* calculate_partnership_equity, _calc_emotional_reciprocity each run
\* analyze_conversation over the window
overall_score_contempt_calls(rows, llm) ==
    IF rows = <<>> THEN 0
    ELSE conversation_contempt_calls(rows, llm) + conversation_contempt_calls(rows, llm)

\* the windows calculate_overall_score is called on: 100 or 200 text rows over
\* 7 or 30 days, the responses all of one quality
ScoredWindows ==
    {NoTextWindow} \cup
    {w \in {Window(t, d, a, c, o, n, r, q, p) :
                t \in {100, 200}, d \in {7, 30}, a \in WindowAffection,
                c \in WindowCommitment, o \in WindowOtherPositives,
                n \in WindowNegatives, r \in {0, 2}, q \in {20, 100},
                p \in WindowPersons} :
        MatchingRows(w) <= w.text}

\* the scores of the responses of a window: from calculate_response_quality
\* with the Oracle disabled, from the Oracle's overall_quality (0 to 100) for
\* the responses to an emotional message with the Oracle enabled
ResponseQualities ==
    {calculate_response_quality(o, r, t) :
        o \in {T_SAD, T_NEUTRAL}, r \in {T_OK, T_NEUTRAL, T_DEVOTED, T_STORY, T_LETTER},
        t \in {5, 31}}
    \cup {0, 55, 100}

\* the windows calculate_emotional_connection is called on; the Oracle gives
\* a depth_score (0 to 100) for each disclosure when it is enabled
ConnectionWindows ==
    {w \in [text : {0, 120}, disclosure : {0, 2, 6, 12}, listening : {0, 1, 4, 12},
            response_scores : {<<>>} \cup {<<a>> : a \in ResponseQualities}
                              \cup {<<a, b, b>> : a, b \in ResponseQualities},
            depth_scores : {<<>>, <<0>>, <<100>>, <<50, 75>>}] :
        /\ w.depth_scores # <<>> => Len(w.depth_scores) <= w.disclosure
        /\ w.text = 0 => (w.disclosure = 0 /\ w.listening = 0 /\ w.response_scores = <<>>)}

\* counts per person: of no, one, two and three persons
PersonCounts == {<<>>, <<7>>, <<1, 199>>, <<4, 4>>, <<1, 7>>, <<3, 37>>, <<1, 1, 8>>}

\* what _calc_contribution_balance reads in a window
BalanceWindows ==
    [task_counts : PersonCounts, msg_counts : PersonCounts \ {<<>>},
     init_counts : PersonCounts \ {<<>>}]


\* response_time_minutes of detect_stonewalling: none, and minutes around the
\* two hours
StonewallingDelays == {NoTime, 0, 119, 120, 121, 600}

\* the text rows of the windows whose Oracle calls are counted
OracleWindows ==
    LET texts == {T_NEUTRAL, T_CONTEMPT, T_SAD, T_NAN}
    IN  {<<>>} \cup {<<a>> : a \in texts} \cup {<<a, b>> : a, b \in texts}
        \cup {<<a, b, c>> : a, b, c \in texts}

\* the calls: without the Oracle there is no reply; _get_label is called on
\* two scores, the lower first
Calls ==
    {[op |-> "get_label", low |-> a, high |-> b] :
        <<a, b>> \in {p \in LabelScores \X LabelScores : p[1] <= p[2]}}
    \cup
    [op : {"detect_contempt"}, text : DetectTexts, llm : {TRUE}, reply : ContemptReplyDomain]
    \cup [op : {"detect_contempt"}, text : DetectTexts, llm : {FALSE}, reply : {NoReply}]
    \cup [op : {"detect_repair_attempt"}, text : DetectTexts, llm : {TRUE},
           reply : RepairReplyDomain]
    \cup [op : {"detect_repair_attempt"}, text : DetectTexts, llm : {FALSE},
           reply : {NoReply}]
    \cup [op : {"analyze_message"}, text : MessageTexts,
           previous_message : PreviousMessages,
           response_time_minutes : ResponseTimes, is_after_conflict : BOOLEAN,
           llm : {FALSE}, creply : {NoReply}, rreply : {NoReply}, qreply : {NoReply}]
    \cup [op : {"calculate_overall_score"}, window : ScoredWindows]
    \cup [op : {"calculate_emotional_connection"}, window : ConnectionWindows]
    \cup [op : {"calc_contribution_balance"}, window : BalanceWindows]
    \cup [op : {"count_row"}, text : AllTexts \ {T_EMPTY}]
    \cup [op : {"contempt_oracle_calls"}, rows : OracleWindows, llm : BOOLEAN]
    \cup [op : {"detect_stonewalling"}, text : {T_NEUTRAL, T_OK, T_TANTO_FAZ},
           response_time_minutes : StonewallingDelays, is_after_conflict : BOOLEAN]
    \cup [op : {"analyze_message"}, text : MessageTexts \ {NoRow},
           previous_message : PreviousMessages,
           response_time_minutes : ResponseTimes, is_after_conflict : BOOLEAN,
           llm : {TRUE}, creply : ContemptReplies, rreply : {NoReply},
           qreply : QualityReplies]

NotCalled == [op |-> "pending"]

CallInit ==
    /\ ConvIdle /\ ScoreIdle /\ OracleIdle
    /\ call \in Calls
    /\ result = NotCalled

\* GottmanPatternDetector.detect_contempt is called
CallDetectContempt ==
    /\ result = NotCalled
    /\ call.op = "detect_contempt"
    /\ result' = [op |-> call.op] @@ detect_contempt(call.text, call.llm, call.reply)
    /\ UNCHANGED <<call, convVars, scoreVars, oracleVars>>

\* PositivePatternDetector.detect_repair_attempt is called
CallDetectRepairAttempt ==
    /\ result = NotCalled
    /\ call.op = "detect_repair_attempt"
    /\ result' = [op |-> call.op] @@ detect_repair_attempt(call.text, call.llm, call.reply)
    /\ UNCHANGED <<call, convVars, scoreVars, oracleVars>>

\* RelationshipPatternAnalyzer.analyze_message is called; with text=None the
\* first pattern.search(text), in detect_criticism, raises TypeError
CallAnalyzeMessage ==
    /\ result = NotCalled
    /\ call.op = "analyze_message"
    /\ result' = [op |-> call.op] @@
                  (IF call.text = NoRow THEN Raised
                   ELSE analyze_message(call.text, "A", call.response_time_minutes,
                                        call.is_after_conflict, call.previous_message,
                                        call.llm, call.creply, call.rreply, call.qreply))
    /\ UNCHANGED <<call, convVars, scoreVars, oracleVars>>

\* ScientificHealthScorer.calculate_overall_score is called on a window with
\* rows: the four calculators, the roll-up, the label, the insights and the
\* alerts, then the construction of the result raises NameError (line 1516)
CallCalculateOverallScore ==
    /\ result = NotCalled
    /\ call.op = "calculate_overall_score"
    /\ \E ec \in calculate_emotional_connection(call.window),
          ac \in calculate_affection_commitment(call.window),
          ch \in calculate_communication_health(call.window),
          pe \in calculate_partnership_equity(call.window) :
          result' = [op |-> call.op, raised |-> TRUE, error |-> "NameError",
                     locals |-> overall_score_locals(ec, ac, ch, pe)]
    /\ UNCHANGED <<call, convVars, scoreVars, oracleVars>>

\* ScientificHealthScorer.calculate_emotional_connection is called
CallCalculateEmotionalConnection ==
    /\ result = NotCalled
    /\ call.op = "calculate_emotional_connection"
    /\ \E ec \in calculate_emotional_connection(call.window) :
          result' = [op |-> call.op, raised |-> FALSE, out |-> ec]
    /\ UNCHANGED <<call, convVars, scoreVars, oracleVars>>

\* ScientificHealthScorer._calc_contribution_balance is called
CallCalcContributionBalance ==
    /\ result = NotCalled
    /\ call.op = "calc_contribution_balance"
    /\ \E c \in calc_contribution_balance(call.window.task_counts,
                                           call.window.msg_counts,
                                           call.window.init_counts) :
          result' = [op |-> call.op, raised |-> FALSE, out |-> c]
    /\ UNCHANGED <<call, convVars, scoreVars, oracleVars>>

\* one row of the window goes through the pattern loops of the component
\* scorers of calculate_overall_score
CallCountRow ==
    /\ result = NotCalled
    /\ call.op = "count_row"
    /\ result' = [op |-> call.op, raised |-> FALSE,
                  out |-> counting_components(call.text)]
    /\ UNCHANGED <<call, convVars, scoreVars, oracleVars>>

\* GottmanPatternDetector.detect_stonewalling is called
CallDetectStonewalling ==
    /\ result = NotCalled
    /\ call.op = "detect_stonewalling"
    /\ result' = [op |-> call.op] @@
                  Returned(detect_stonewalling(call.text, call.response_time_minutes,
                                               call.is_after_conflict))
    /\ UNCHANGED <<call, convVars, scoreVars, oracleVars>>

\* calculate_overall_score runs on a window: the contempt judgments it
\* requests from the Oracle
CallContemptOracleCalls ==
    /\ result = NotCalled
    /\ call.op = "contempt_oracle_calls"
    /\ result' = [op |-> call.op, raised |-> FALSE,
                  out |-> overall_score_contempt_calls(call.rows, call.llm)]
    /\ UNCHANGED <<call, convVars, scoreVars, oracleVars>>

\* ScientificHealthScorer._get_label is called on the two scores
CallGetLabel ==
    /\ result = NotCalled
    /\ call.op = "get_label"
    /\ result' = [op |-> call.op, raised |-> FALSE,
                  out |-> <<get_label(call.low), get_label(call.high)>>]
    /\ UNCHANGED <<call, convVars, scoreVars, oracleVars>>

-----------------------------------------------------------------------------
(* calculate_overall_score as a state machine: the four dimension            *)
(* calculators in turn, the roll-up, the construction of the result.  The    *)
(* component scorers are taken by their range: any one-decimal score of      *)
(* ComponentScores.                                                          *)

Windows ==
    {[rows |-> 0, text |-> 0], [rows |-> 3, text |-> 0], [rows |-> 3, text |-> 3],
     [rows |-> 120, text |-> 0], [rows |-> 120, text |-> 120]}

\* the 'score' of a component, round(score, 1), in tenths
ComponentScores == {333, 845}

ScoreInit ==
    /\ ConvIdle /\ CallIdle /\ OracleIdle
    /\ window \in Windows
    /\ scorer_llm \in BOOLEAN
    /\ spc = "start"
    /\ dimensions = <<>>
    /\ rollup = NoRollup
    /\ outcome = NoOutcome

\* "if len(scoring_df) == 0: return HealthScoreResult(overall=50.0, ...)"
ReturnInsufficientData ==
    /\ spc = "start" /\ window.rows = 0
    /\ outcome' = InsufficientData
    /\ spc' = "returned"
    /\ UNCHANGED <<window, scorer_llm, dimensions, rollup, convVars, callVars, oracleVars>>

\* what the calculator of a dimension can return on the window
DimensionScores(dim) ==
    IF window.text = 0 THEN {NeutralDimension}
    ELSE UNION {{[score |-> total, components |-> c] : total \in Round1(TotalScore(dim, c))} :
                   c \in [ComponentNames[dim] -> ComponentScores]}

\* the call of the calculator of dim
Calculate(dim, to) ==
    /\ window.rows > 0
    /\ \E d \in DimensionScores(dim) : dimensions' = (dim :> d) @@ dimensions
    /\ spc' = to
    /\ UNCHANGED <<window, scorer_llm, rollup, outcome, convVars, callVars, oracleVars>>

CalculateEmotionalConnection == spc = "start" /\ Calculate("emotionalConnection", "ec")

CalculateAffectionCommitment == spc = "ec" /\ Calculate("affectionCommitment", "ac")

CalculateCommunicationHealth == spc = "ac" /\ Calculate("communicationHealth", "ch")

CalculatePartnershipEquity == spc = "ch" /\ Calculate("partnershipEquity", "pe")

\* an exception leaves calculate_overall_score: its locals are gone
Raise(error, where) ==
    /\ outcome' = [kind |-> "raised", error |-> error, where |-> where]
    /\ spc' = "raised"
    /\ dimensions' = <<>>
    /\ rollup' = NoRollup
    /\ UNCHANGED <<window, scorer_llm, convVars, callVars, oracleVars>>

\* an Oracle call of _calc_responsiveness or _calc_vulnerability raises
EmotionalConnectionRaises ==
    /\ spc = "start" /\ window.text > 0 /\ scorer_llm
    /\ Raise("OracleError", "calculate_emotional_connection")

\* an Oracle call of analyze_conversation raises
CommunicationHealthRaises ==
    /\ spc = "ac" /\ window.text > 0 /\ scorer_llm
    /\ Raise("OracleError", "calculate_communication_health")

\* overall_score, _get_label(overall_score), confidence
RollUp ==
    /\ spc = "pe"
    /\ rollup' = [overall_score |-> OverallScore(dimensions),
                  label |-> get_label(OverallScore(dimensions))[1],
                  label_en |-> get_label(OverallScore(dimensions))[2],
                  confidence |-> Confidence(window.rows)]
    /\ spc' = "rolled"
    /\ UNCHANGED <<window, scorer_llm, dimensions, outcome, convVars, callVars, oracleVars>>

\* "return HealthScoreResult(overall=round(weighted_overall, 1), ...)": the
\* name weighted_overall is bound nowhere, so evaluating it raises NameError
BuildResult ==
    /\ spc = "rolled"
    /\ Raise("NameError", "calculate_overall_score")

vars == <<convVars, callVars, scoreVars, oracleVars>>

Init == ConvInit /\ CallIdle /\ ScoreIdle /\ OracleIdle

Next == SkipRow \/ ProcessRow \/ ProcessRowRaises \/ Finish

Spec == Init /\ [][Next]_vars

DecayNext == DecayRow \/ DecayFinish

SpecDecay == DecayInit /\ [][DecayNext]_vars

DelayNext == DelayRow \/ DelayFinish

SpecDelay == DecayInit /\ [][DelayNext]_vars

ScoreNext ==
    \/ ReturnInsufficientData
    \/ CalculateEmotionalConnection \/ CalculateAffectionCommitment
    \/ CalculateCommunicationHealth \/ CalculatePartnershipEquity
    \/ EmotionalConnectionRaises \/ CommunicationHealthRaises
    \/ RollUp \/ BuildResult

SpecScore == ScoreInit /\ [][ScoreNext]_vars

CallNext ==
    \/ CallDetectContempt \/ CallDetectRepairAttempt \/ CallGetLabel
    \/ CallAnalyzeMessage
    \/ CallCalculateOverallScore \/ CallCalculateEmotionalConnection
    \/ CallCalcContributionBalance \/ CallCountRow \/ CallDetectStonewalling
    \/ CallContemptOracleCalls

SpecCall == CallInit /\ [][CallNext]_vars

-----------------------------------------------------------------------------
(* The Oracle operations of LLMRelationshipAnalyzer on its CostTracker: a    *)
(* sequence of invocations, each answered, answered with text that is not   *)
(* JSON, or failing.                                                         *)

\* invocations of the Oracle in the specification SpecTracker
MaxOracleCalls == 3

\* an answer that _parse_json_response turns into {}
Garbled == [kind |-> "garbled"]

VulnerabilityReplies ==
    { [kind |-> "raise"],
      [kind |-> "ok", depth_level |-> "deep", depth_score |-> 85],
      [kind |-> "ok", depth_level |-> "surface", depth_score |-> 20] }

SharedMeaningReplies ==
    { [kind |-> "raise"],
      [kind |-> "ok", commitment_level |-> "strong", commitment_score |-> 90],
      [kind |-> "ok", commitment_level |-> "casual", commitment_score |-> 25] }

\* what the Oracle may answer to each operation
RepliesTo ==
    [detect_contempt |-> ContemptReplies \cup {Garbled},
     assess_response_quality |-> QualityReplies \cup {Garbled},
     validate_repair_attempt |-> RepairReplies \cup {Garbled},
     analyze_vulnerability_depth |-> VulnerabilityReplies \cup {Garbled},
     assess_shared_meaning |-> SharedMeaningReplies \cup {Garbled}]

TrackerInit ==
    /\ ConvIdle /\ CallIdle /\ ScoreIdle
    /\ cost_tracker = NewCostTracker
    /\ invoked = <<>>
    /\ request = [op |-> "none"]
    /\ tasks = <<>>
    /\ analysis = [kind |-> "<none>"]

\* one synchronous invocation of an Oracle operation: prompt, _call_llm, parse
Invoke(op) ==
    /\ Len(invoked) < MaxOracleCalls
    /\ \E reply \in RepliesTo[op] :
          /\ cost_tracker' = call_llm(cost_tracker, ANALYSIS_TYPE[op], reply,
                                      Len(invoked) + 1)
          /\ invoked' = Append(invoked, [op |-> op, reply |-> reply.kind])

OracleDetectContempt ==
    /\ Invoke("detect_contempt")
    /\ UNCHANGED <<request, tasks, analysis, convVars, callVars, scoreVars>>

OracleAssessResponseQuality ==
    /\ Invoke("assess_response_quality")
    /\ UNCHANGED <<request, tasks, analysis, convVars, callVars, scoreVars>>

OracleValidateRepairAttempt ==
    /\ Invoke("validate_repair_attempt")
    /\ UNCHANGED <<request, tasks, analysis, convVars, callVars, scoreVars>>

OracleAnalyzeVulnerabilityDepth ==
    /\ Invoke("analyze_vulnerability_depth")
    /\ UNCHANGED <<request, tasks, analysis, convVars, callVars, scoreVars>>

OracleAssessSharedMeaning ==
    /\ Invoke("assess_shared_meaning")
    /\ UNCHANGED <<request, tasks, analysis, convVars, callVars, scoreVars>>

TrackerNext ==
    \/ OracleDetectContempt \/ OracleAssessResponseQuality
    \/ OracleValidateRepairAttempt \/ OracleAnalyzeVulnerabilityDepth
    \/ OracleAssessSharedMeaning

SpecTracker == TrackerInit /\ [][TrackerNext]_vars

-----------------------------------------------------------------------------
(* LLMRelationshipAnalyzer.analyze_message and analyze_message_async on one *)
(* message: the calls the async version gathers run _call_llm in threads of *)
(* the executor and log on the one CostTracker                               *)

\* task_types, in the order the conditions are tested
TaskTypes == <<"contempt", "response_quality", "repair", "vulnerability", "shared_meaning">>

\* the Oracle operation behind each task type
OperationOf ==
    [contempt |-> "detect_contempt",
     response_quality |-> "assess_response_quality",
     repair |-> "validate_repair_attempt",
     vulnerability |-> "analyze_vulnerability_depth",
     shared_meaning |-> "assess_shared_meaning"]

\* characters of the message: not above 5, or above
MessageLengths == {2, 9}

\* what the Oracle answers to an operation of the message: an API error or a
\* parsed answer
MessageReplies ==
    [detect_contempt |->
        {[kind |-> "raise"],
         [kind |-> "ok", is_contempt |-> TRUE, confidence |-> 90, severity |-> "severe"]},
     assess_response_quality |->
        {[kind |-> "raise"],
         [kind |-> "ok", overall_quality |-> 20, is_dismissive |-> TRUE]},
     validate_repair_attempt |->
        {[kind |-> "raise"],
         [kind |-> "ok", is_genuine |-> TRUE, confidence |-> 90,
          responsibility_level |-> "full", has_blame_shifting |-> FALSE]},
     analyze_vulnerability_depth |->
        {[kind |-> "raise"],
         [kind |-> "ok", depth_level |-> "deep", depth_score |-> 85]},
     assess_shared_meaning |->
        {[kind |-> "raise"], Garbled}]

\* the conditions under which analyze_message and analyze_message_async run
\* the operation of a task type
Applies(req, type) ==
    CASE type = "contempt" -> req.analyze_all \/ req.message_len > 5
      [] type = "response_quality" -> req.is_response_to_emotional /\ req.previous_message
      [] type = "repair" -> req.is_potential_repair
      [] type = "vulnerability" -> req.is_emotional_disclosure
      [] type = "shared_meaning" -> req.is_future_planning

\* the task types of a message, in order
task_types(req) == SelectSeq(TaskTypes, LAMBDA type : Applies(req, type))

\* the arguments of a call and what the Oracle answers to each operation that
\* the message causes
Requests ==
    {req \in [analyze_all : BOOLEAN, message_len : MessageLengths,
              is_response_to_emotional : BOOLEAN, previous_message : {TRUE},
              is_potential_repair : BOOLEAN, is_emotional_disclosure : BOOLEAN,
              is_future_planning : BOOLEAN,
              replies : [OracleOperations ->
                            UNION {MessageReplies[o] : o \in OracleOperations}
                            \cup {NoReply}]] :
        /\ req.analyze_all => req.message_len = 2
        /\ \A type \in {TaskTypes[i] : i \in DOMAIN TaskTypes} :
              IF Applies(req, type)
              THEN req.replies[OperationOf[type]] \in MessageReplies[OperationOf[type]]
              ELSE req.replies[OperationOf[type]] = NoReply}

\* the result object an Oracle operation builds from the answer
ResultOf(type, reply) ==
    CASE type = "contempt" -> LLM_detect_contempt(reply)
      [] type = "response_quality" -> LLM_assess_response_quality(reply)
      [] type = "repair" -> LLM_validate_repair_attempt(reply)
      [] type = "vulnerability" -> LLM_analyze_vulnerability_depth(reply)
      [] type = "shared_meaning" -> LLM_assess_shared_meaning(reply)

\* a field of MessageAnalysis that was not set
None == [raised |-> FALSE, unset |-> TRUE]

\* the MessageAnalysis whose fields of the given task types are set
MessageAnalysis(req, types) ==
    [kind |-> "returned",
     results |-> [type \in {TaskTypes[i] : i \in DOMAIN TaskTypes} |->
                    IF \E i \in DOMAIN types : types[i] = type
                    THEN ResultOf(type, req.replies[OperationOf[type]])
                    ELSE None]]

\* the exception of an Oracle call leaves the method
AnalysisRaised == [kind |-> "raised"]

\* the index in the task types of the first operation whose call raises, or 0
FirstFailing(req) ==
    LET types == task_types(req)
        failing == {i \in DOMAIN types : req.replies[OperationOf[types[i]]].kind = "raise"}
    IN  IF failing = {} THEN 0 ELSE CHOOSE i \in failing : \A j \in failing : i <= j

\* LLMRelationshipAnalyzer.analyze_message: the operations one after the
\* other; the first call that raises ends it
analyze_message_sync(req) ==
    LET types == task_types(req)
        k == FirstFailing(req)
        issued == IF k = 0 THEN types ELSE SubSeq(types, 1, k)
    IN  [issued |-> [i \in DOMAIN issued |-> OperationOf[issued[i]]],
         analysis |-> IF k = 0 THEN MessageAnalysis(req, types) ELSE AnalysisRaised]

AsyncInit ==
    /\ ConvIdle /\ CallIdle /\ ScoreIdle
    /\ cost_tracker = NewCostTracker
    /\ invoked = <<>>
    /\ request \in Requests
    /\ tasks = <<>>
    /\ analysis = [kind |-> "<none>"]

\* analyze_message_async up to asyncio.gather: every task is created and its
\* _call_llm handed to the executor
AsyncGather ==
    /\ analysis.kind = "<none>"
    /\ LET types == task_types(request)
       IN  /\ tasks' = [i \in DOMAIN types |-> [type |-> types[i], stage |-> "issued"]]
           /\ invoked' = [i \in DOMAIN types |->
                            [op |-> OperationOf[types[i]],
                             reply |-> request.replies[OperationOf[types[i]]].kind]]
    /\ analysis' = [kind |-> "gathering"]
    /\ UNCHANGED <<request, cost_tracker, convVars, callVars, scoreVars>>

\* the reply that the Oracle gives to a task
ReplyTo(i) == request.replies[OperationOf[tasks[i].type]]

\* a thread's client.messages.create returns and log_analysis appends the cost
\* to analyses
TaskLogsAnalysis ==
    /\ \E i \in DOMAIN tasks :
          /\ tasks[i].stage = "issued"
          /\ ReplyTo(i).kind # "raise"
          /\ cost_tracker' = append_analyses(cost_tracker,
                                AnalysisCost(ANALYSIS_TYPE[OperationOf[tasks[i].type]], i))
          /\ tasks' = [tasks EXCEPT ![i].stage = "logging"]
    /\ UNCHANGED <<request, invoked, analysis, convVars, callVars, scoreVars>>

\* a thread's client.messages.create raises
TaskRaises ==
    /\ \E i \in DOMAIN tasks :
          /\ tasks[i].stage = "issued"
          /\ ReplyTo(i).kind = "raise"
          /\ tasks' = [tasks EXCEPT ![i].stage = "failed"]
    /\ UNCHANGED <<request, invoked, analysis, cost_tracker, convVars, callVars, scoreVars>>

\* a thread's log_analysis appends the cost to _costs_by_type and _call_llm returns
TaskLogsByType ==
    /\ \E i \in DOMAIN tasks :
          /\ tasks[i].stage = "logging"
          /\ cost_tracker' = append_costs_by_type(cost_tracker,
                                AnalysisCost(ANALYSIS_TYPE[OperationOf[tasks[i].type]], i))
          /\ tasks' = [tasks EXCEPT ![i].stage = "done"]
    /\ UNCHANGED <<request, invoked, analysis, convVars, callVars, scoreVars>>

\* gather has every result (or there was no task): the results are zipped
\* with task_types into the MessageAnalysis
AsyncReturn ==
    /\ analysis.kind = "gathering"
    /\ \A i \in DOMAIN tasks : tasks[i].stage = "done"
    /\ analysis' = MessageAnalysis(request, [i \in DOMAIN tasks |-> tasks[i].type])
    /\ UNCHANGED <<request, invoked, tasks, cost_tracker, convVars, callVars, scoreVars>>

\* gather passes on the first exception of a task; the threads of the other
\* tasks run on
AsyncGatherRaises ==
    /\ analysis.kind = "gathering"
    /\ \E i \in DOMAIN tasks : tasks[i].stage = "failed"
    /\ analysis' = AnalysisRaised
    /\ UNCHANGED <<request, invoked, tasks, cost_tracker, convVars, callVars, scoreVars>>

AsyncNext ==
    \/ AsyncGather \/ TaskLogsAnalysis \/ TaskRaises \/ TaskLogsByType
    \/ AsyncReturn \/ AsyncGatherRaises

SpecAsync == AsyncInit /\ [][AsyncNext]_vars

-----------------------------------------------------------------------------
(* Claims on the conflict context *)

\* the rows of the finished stream were all analysed, and row 3 alone produced
\* a match that carries a horseman tag
OnlyThirdRowHasHorseman ==
    /\ Len(log) = DecayLen
    /\ \A i \in 1..DecayLen : ~log[i].skipped /\ (log[i].horsemen # {} <=> i = 3)

\* C1: in a stream of 10 analysed rows whose reply delays do not exceed 120
\* minutes and of which row 3 alone produces a horseman match (contempt), the
\* is_after_conflict handed to analyze_message is true for rows 4 to 8 and false
\* for rows 9 and 10
C1_ConflictWindowRows4To8 ==
    (OnlyThirdRowHasHorseman /\ log[3].horsemen = {"contempt"})
        => /\ \A i \in 4..8 : log[i].is_after_conflict
           /\ ~log[9].is_after_conflict /\ ~log[10].is_after_conflict

-----------------------------------------------------------------------------
(* Claims on the finished summary *)

RECURSIVE SumOf(_, _)
\* the sum of the values of a counter map over the keys in keys
SumOf(counts, keys) ==
    IF keys = {} THEN 0
    ELSE LET k == CHOOSE x \in keys : TRUE
         IN  counts[k] + SumOf(counts, keys \ {k})

\* the matches of the summary that are negative and carry no horseman tag
UntaggedNegatives ==
    {i \in 1..Len(summary.matches) :
        /\ summary.matches[i].pattern_type = "negative"
        /\ summary.matches[i].horseman = "None"}

\* C5: the finished summary's positive_ratio is total_positive / total_negative
\* when total_negative > 0, total_positive itself (uncapped) when total_negative
\* is 0 and total_positive > 0, and 5.0 when both are 0
C5_PositiveRatioFormula ==
    pc = "done" =>
        LET r == summary.positive_ratio
            pos == summary.total_positive
            neg == summary.total_negative
        IN  /\ r[2] > 0
            /\ neg > 0 => r[1] * neg = pos * r[2]
            /\ (neg = 0 /\ pos > 0) => r[1] = pos * r[2]
            /\ (neg = 0 /\ pos = 0) => r[1] = 5 * r[2]

\* a finished conversation with 7 positive matches and none negative: ratio 7.0
C5_SevenPositivesNoNegative ==
    /\ pc = "done"
    /\ summary.total_positive = 7 /\ summary.total_negative = 0
    /\ summary.positive_ratio = Ratio(7, 1)

\* C6: total_positive is the sum of positive_counts, total_negative is the sum
\* of four_horsemen_counts plus the number of negative matches without a
\* horseman tag, and the two totals add up to the number of matches
C6_TotalsAgreeWithCounters ==
    /\ summary.total_positive = SumOf(summary.positive_counts, PositiveNames)
    /\ summary.total_negative =
          SumOf(summary.four_horsemen_counts, Horsemen) + Cardinality(UntaggedNegatives)
    /\ summary.total_positive + summary.total_negative = Len(summary.matches)

\* a returned summary holding a positive match, a horseman match and a negative
\* match without a horseman tag
C6_ReturnedWithAllThreeKinds ==
    /\ pc = "done"
    /\ summary.total_positive > 0
    /\ SumOf(summary.four_horsemen_counts, Horsemen) > 0
    /\ UntaggedNegatives # {}

-----------------------------------------------------------------------------
(* Claims on the Oracle-consulting detectors *)

\* detect_contempt was called with the Oracle enabled and returned
ContemptReturnedWithOracle ==
    /\ call.op = "detect_contempt" /\ call.llm
    /\ result # NotCalled /\ ~result.raised

\* the result is one contempt match of the given score_impact
IsContemptMatch(out, impact) ==
    /\ Len(out) = 1
    /\ out[1].pattern_type = "negative" /\ out[1].pattern_name = "contempt"
    /\ out[1].horseman = "contempt" /\ out[1].score_impact = impact

\* C9: with the Oracle enabled detect_contempt returns a contempt match of
\* score_impact -5, -8, -10 for severity mild, moderate, severe when the Oracle
\* answers is_contempt with confidence >= 0.6; no match when a contempt regex
\* matched and the Oracle answers not-contempt with confidence >= 0.7; and in
\* every other case the regex-only result: a match of -8 iff a pattern matched
C9_ContemptReconciliation ==
    ContemptReturnedWithOracle =>
        LET answer == LLM_detect_contempt(call.reply)
            regex == \E p \in CONTEMPT_PATTERNS : Search(p, call.text)
            confirms == answer.is_contempt /\ answer.confidence >= 60
            overrides == regex /\ ~answer.is_contempt /\ answer.confidence >= 70
        IN  /\ (confirms /\ answer.severity = "mild") => IsContemptMatch(result.out, -5)
            /\ (confirms /\ answer.severity = "moderate") => IsContemptMatch(result.out, -8)
            /\ (confirms /\ answer.severity = "severe") => IsContemptMatch(result.out, -10)
            /\ overrides => result.out = <<>>
            /\ (~confirms /\ ~overrides) =>
                  IF regex THEN IsContemptMatch(result.out, -8) ELSE result.out = <<>>

\* the Oracle finds severe contempt at confidence 0.6 in a text no contempt
\* pattern matches, and detect_contempt returns the -10 match
C9_OracleConfirmsAtThreshold ==
    /\ ContemptReturnedWithOracle
    /\ call.text = T_NEUTRAL
    /\ call.reply.kind = "ok" /\ call.reply.is_contempt
    /\ call.reply.confidence = 60 /\ call.reply.severity = "severe"
    /\ IsContemptMatch(result.out, -10)

\* detect_repair_attempt was called with the Oracle enabled on a text of the
\* repair family, and returned with the Oracle reporting blame shifting
RepairReturnedWithBlameShifting ==
    /\ call.op = "detect_repair_attempt" /\ call.llm
    /\ \E p \in REPAIR_PATTERNS : Search(p, call.text)
    /\ result # NotCalled /\ ~result.raised
    /\ LLM_validate_repair_attempt(call.reply).has_blame_shifting

\* the result is one negative match named fake_repair with a negative impact
IsFakeRepair(out) ==
    /\ Len(out) = 1
    /\ out[1].pattern_type = "negative" /\ out[1].pattern_name = "fake_repair"
    /\ out[1].score_impact < 0

\* C10 as stated: with the Oracle enabled, a text of the repair family for which
\* the Oracle reports has_blame_shifting, whatever is_genuine and confidence,
\* gets a negative fake_repair match
C10_BlameShiftingAlwaysFakeRepair ==
    RepairReturnedWithBlameShifting => IsFakeRepair(result.out)

\* C10: with the Oracle enabled, a text of the repair family for which the
\* Oracle reports has_blame_shifting gets a negative fake_repair match of -2
\* unless the Oracle also answers is_genuine with confidence >= 0.6; then the
\* match is a positive repair_attempt of +7 (responsibility full) or +5
C10_BlameShiftingUnlessGenuine ==
    RepairReturnedWithBlameShifting =>
        LET answer == LLM_validate_repair_attempt(call.reply)
        IN  IF answer.is_genuine /\ answer.confidence >= 60
            THEN /\ Len(result.out) = 1
                 /\ result.out[1].pattern_type = "positive"
                 /\ result.out[1].pattern_name = "repair_attempt"
                 /\ result.out[1].score_impact =
                       (IF answer.responsibility_level = "full" THEN 7 ELSE 5)
            ELSE IsFakeRepair(result.out) /\ result.out[1].score_impact = -2

\* the Oracle reports blame shifting and a repair that is not genuine, and
\* detect_repair_attempt returns the fake_repair match
C10_DemotedToFakeRepair ==
    /\ RepairReturnedWithBlameShifting
    /\ call.reply.kind = "ok" /\ ~call.reply.is_genuine
    /\ IsFakeRepair(result.out)

-----------------------------------------------------------------------------
(* Claims on Oracle failures *)

\* every Oracle call made so far in the conversation raised: no row was
\* analysed to its end, and a row that raised did so at its first call
NoOracleCallSucceeded ==
    \A i \in 1..Len(log) : log[i].skipped \/ log[i].raised = "detect_contempt"

\* C3: with the Oracle enabled and every Oracle call raising, each consulting
\* step takes its neutral default and no exception reaches the caller of
\* analyze_conversation
C3_OracleFailureDoesNotPropagate ==
    (use_llm /\ NoOracleCallSucceeded) => pc # "raised"

-----------------------------------------------------------------------------
(* Claims on the scorer *)

\* calculate_overall_score has ended, by a return or by an exception
ScoreEnded == spc \in {"returned", "raised"}

\* C2: for a non-empty scoring window calculate_overall_score returns a
\* result whose overall is the sum of the four dimension scores of its
\* dimensions map weighted 0.30, 0.25, 0.25, 0.20, rounded to one decimal
C2_OverallIsWeightedSum ==
    (ScoreEnded /\ window.rows > 0 /\ ~scorer_llm) =>
        /\ outcome.kind = "returned"
        /\ outcome.overall \in
              Round1(outcome.dimensions.emotionalConnection.score * 30
                     + outcome.dimensions.affectionCommitment.score * 25
                     + outcome.dimensions.communicationHealth.score * 25
                     + outcome.dimensions.partnershipEquity.score * 20)

\* C4: for a scoring window with no message of type 'text', a window of media
\* only included, calculate_overall_score returns overall 50.0, the labels
\* 'Dados Insuficientes' / 'Insufficient Data' and confidence 0.0
C4_NoTextGivesInsufficientData ==
    (ScoreEnded /\ window.text = 0) =>
        /\ outcome.kind = "returned"
        /\ outcome.overall = 500
        /\ outcome.label = "Dados Insuficientes"
        /\ outcome.label_en = "Insufficient Data"
        /\ outcome.confidence = 0

\* the fixed weights of the components of each dimension, in hundredths
FixedWeights ==
    [emotionalConnection |->
        [responsiveness |-> 40, vulnerability |-> 35, attunement |-> 25],
     affectionCommitment |->
        [expressedAffection |-> 40, commitmentSignals |-> 35, appreciation |-> 25],
     communicationHealth |->
        [constructiveDialogue |-> 30, conflictRepair |-> 30, emotionalSafety |-> 25,
         supportiveResponses |-> 15],
     partnershipEquity |->
        [contributionBalance |-> 40, coordination |-> 35, emotionalReciprocity |-> 25]]

\* the weighted sum of the scores of the components map of a dimension, in
\* thousandths
WeightedSum(dim) ==
    LET c == dimensions[dim].components
    IN  SumOf([k \in DOMAIN c |-> c[k] * FixedWeights[dim][k]], DOMAIN c)

\* the score of a dimension is its weighted sum up to the one-decimal rounding
Reproducible(dim) ==
    LET diff == dimensions[dim].score * 100 - WeightedSum(dim)
    IN  -50 <= diff /\ diff <= 50

\* C7 as stated: for every window, one with no text message included, the
\* score of every DimensionScore is the weighted sum of the scores of its
\* components map under the fixed weights, up to the one-decimal rounding
C7_ScoreReproducibleForEveryWindow ==
    \A dim \in DOMAIN dimensions : Reproducible(dim)

\* C7: for a window with a text message the score of every DimensionScore is
\* the weighted sum of the scores of its components map under the fixed
\* weights, up to the one-decimal rounding; for a window with no text message
\* the score is 50.0 and the components map is empty
C7_ScoreReproducibleWithText ==
    \A dim \in DOMAIN dimensions :
        IF window.text > 0
        THEN /\ DOMAIN dimensions[dim].components = DOMAIN FixedWeights[dim]
             /\ Reproducible(dim)
        ELSE /\ dimensions[dim].score = 500
             /\ DOMAIN dimensions[dim].components = {}

\* the four dimensions are calculated on a window with text messages, and the
\* components of communication health do not all have the same score
C7_FourDimensionsCalculated ==
    /\ spc = "pe" /\ window.text > 0
    /\ DOMAIN dimensions = DOMAIN FixedWeights
    /\ dimensions.communicationHealth.components.constructiveDialogue = 333
    /\ dimensions.communicationHealth.components.supportiveResponses = 845

SixLabels ==
    {"Flourishing", "Healthy", "Stable", "Attention", "Concerning", "Critical"}

\* the rank of a label, from the lowest range to the highest
LabelRank(en) ==
    CASE en = "Critical" -> 1
      [] en = "Concerning" -> 2
      [] en = "Attention" -> 3
      [] en = "Stable" -> 4
      [] en = "Healthy" -> 5
      [] en = "Flourishing" -> 6

\* C8: for every overall score in [0,100] that a weighted sum of one-decimal
\* dimension scores can take, non-integers included, _get_label returns one of
\* the six labels and never 'N/A', and the rank of the label does not decrease
\* with the score
C8_LabelTotalAndMonotone ==
    (call.op = "get_label" /\ result # NotCalled) =>
        /\ result.out[1][2] \in SixLabels
        /\ result.out[2][2] \in SixLabels
        /\ LabelRank(result.out[1][2]) <= LabelRank(result.out[2][2])

-----------------------------------------------------------------------------
(* Claims on analyze_message *)

\* analyze_message was called with empty or null text and has ended
AnalyzeMessageEndedOnNoText ==
    /\ call.op = "analyze_message" /\ call.text \in {T_EMPTY, NoRow}
    /\ result # NotCalled

\* C11: analyze_message called with empty or null text returns an empty list
\* of matches and does not raise, whatever previous_message,
\* response_time_minutes and is_after_conflict are
C11_NoTextNoMatch ==
    AnalyzeMessageEndedOnNoText => (~result.raised /\ result.out = <<>>)

\* the matches the row just processed has added to summary.matches that are
\* named dismissive_response
NewDismissive ==
    {i \in (Len(summary.matches) + 1)..Len(summary'.matches) :
        summary'.matches[i].pattern_name = "dismissive_response"}

\* C12: during analyze_conversation a dismissive_response match is emitted for
\* a row only if the row before it was sent by the other party and is
\* emotional, and the row itself is minimal; a minimal message after the same
\* sender's own emotional message gets none
C12_DismissiveOnlyAfterOtherParty ==
    [][\A i \in NewDismissive :
          /\ prev_message \in AllTexts
          /\ is_emotional_message(prev_message)
          /\ is_dismissive_response(prev_message')
          /\ prev_sender # summary'.matches[i].sender]_vars

-----------------------------------------------------------------------------
(* Claims on _generate_alerts *)

\* the alerts of the finished summary that have the given type
AlertsOfType(type) ==
    {i \in 1..Len(summary.alerts) : summary.alerts[i].type = type}

\* the ratio_warning alerts of the finished summary are exactly one, of the
\* severity the ratio asks for
OneRatioWarning ==
    /\ Cardinality(AlertsOfType("ratio_warning")) = 1
    /\ \A i \in AlertsOfType("ratio_warning") :
          summary.alerts[i].severity =
              (IF RatioBelow(summary.positive_ratio, 3) THEN "high" ELSE "medium")

\* C13 as stated: every finished summary with positive_ratio < 5.0 has exactly
\* one ratio_warning, high below 3.0 and medium otherwise, also when
\* total_negative = 0 and total_positive is in 1..4
C13_RatioWarningBelowFive ==
    (pc = "done" /\ RatioBelow(summary.positive_ratio, 5)) => OneRatioWarning

\* C13: a finished summary with positive_ratio < 5.0 and total_negative > 0 has
\* exactly one ratio_warning, high below 3.0 and medium otherwise; a finished
\* summary with total_negative = 0 or positive_ratio >= 5.0 has none
C13_RatioWarningWithNegatives ==
    pc = "done" =>
        IF RatioBelow(summary.positive_ratio, 5) /\ summary.total_negative > 0
        THEN OneRatioWarning
        ELSE AlertsOfType("ratio_warning") = {}

\* a finished summary of three positives to one negative, ratio 3.0, carries
\* a ratio_warning of severity medium
C13_MediumWarningAtThree ==
    /\ pc = "done"
    /\ summary.total_positive = 3 /\ summary.total_negative = 1
    /\ \E i \in AlertsOfType("ratio_warning") : summary.alerts[i].severity = "medium"

\* C14: a finished summary carries one horseman_warning for a horseman iff
\* that horseman's count is >= 3, for each horseman on its own, and exactly
\* one critical_warning of severity critical iff the contempt count is >= 2,
\* whatever the other alerts
C14_HorsemanAndCriticalWarnings ==
    pc = "done" =>
        /\ \A h \in Horsemen :
              Cardinality({i \in AlertsOfType("horseman_warning") :
                              summary.alerts[i].horseman = h})
                  = (IF summary.four_horsemen_counts[h] >= 3 THEN 1 ELSE 0)
        /\ Cardinality(AlertsOfType("critical_warning"))
              = (IF summary.four_horsemen_counts["contempt"] >= 2 THEN 1 ELSE 0)
        /\ \A i \in AlertsOfType("critical_warning") :
              summary.alerts[i].severity = "critical"

\* three contempt matches: the finished summary carries the contempt
\* horseman_warning and the critical_warning
C14_ThreeContemptBothWarnings ==
    /\ pc = "done"
    /\ summary.four_horsemen_counts["contempt"] = 3
    /\ \E i \in AlertsOfType("horseman_warning") : summary.alerts[i].horseman = "contempt"
    /\ AlertsOfType("critical_warning") # {}


\* calculate_overall_score has run its calculators and compilers
OverallScoreCalled == result # NotCalled /\ result.op = "calculate_overall_score"

\* an entry of the list names the dimension
NamesDimension(entries, dimension) == \E i \in DOMAIN entries : entries[i] = dimension

\* the key of `recent` each dimension of the insights is read from
InsightDimensions ==
    [emotionalConnection |-> "emotionalConnection",
     affectionCommitment |-> "affectionCommitment",
     communication |-> "communicationHealth",
     partnershipEquity |-> "partnershipEquity"]

\* C15: _compile_insights adds a strengths entry for a dimension exactly when
\* its score is at least 70 and an opportunities entry exactly when its score
\* is below 55, for each of the four dimensions, Communication Health with a
\* contempt count of 0 included
C15_InsightPerDimension ==
    OverallScoreCalled =>
        \A key \in DOMAIN InsightDimensions :
            LET score == result.locals.recent[key].score
                insights == result.locals.all_insights
            IN  /\ NamesDimension(insights.strengths, InsightDimensions[key])
                       <=> score >= 700
                /\ NamesDimension(insights.opportunities, InsightDimensions[key])
                       <=> score < 550

\* the positive-to-negative ratio _calc_emotional_reciprocity computes is
\* below 3.0
ComputedRatioBelowThree ==
    LET reciprocity == result.locals.recent["partnershipEquity"].components["emotionalReciprocity"]
    IN  IF reciprocity.negativeCount > 0
        THEN reciprocity.positiveCount < 3 * reciprocity.negativeCount
        ELSE reciprocity.positiveCount \in 1..2

\* C16: _compile_alerts adds a 'contempt' alert exactly when contemptCount is
\* at least 2, a 'criticism' alert exactly when criticismCount is at least 3,
\* a 'defensiveness' alert exactly when defensivenessCount is at least 3, and
\* a 'low_positivity_ratio' alert exactly when the ratio the reciprocity
\* component computed is below 3.0
C16_AlertPerTrigger ==
    (OverallScoreCalled /\ call.window.text > 0) =>
        LET comm == result.locals.recent["communication"].components
            alerts == result.locals.alerts
        IN  /\ NamesDimension(alerts, "contempt")
                   <=> comm["emotionalSafety"].contemptCount >= 2
            /\ NamesDimension(alerts, "criticism")
                   <=> comm["constructiveDialogue"].criticismCount >= 3
            /\ NamesDimension(alerts, "defensiveness")
                   <=> comm["constructiveDialogue"].defensivenessCount >= 3
            /\ NamesDimension(alerts, "low_positivity_ratio")
                   <=> ComputedRatioBelowThree

\* the alert lists _compile_alerts can give for a window whose pattern summary
\* is s: it reads the emotionalSafety and constructiveDialogue components of
\* Communication Health and the emotionalReciprocity component of Partnership
\* Equity, all three scored from s
SummaryAlerts(s) ==
    {compile_alerts([communication |->
                         [components |-> [emotionalSafety |-> c[1],
                                          constructiveDialogue |-> c[2]]],
                     partnershipEquity |->
                         [components |-> [emotionalReciprocity |-> c[3]]]]) :
        c \in calc_emotional_safety(s) \X calc_constructive_dialogue(s)
              \X calc_emotional_reciprocity(s)}

\* the analysed rows that carry a contempt match
ContemptRows == {i \in DOMAIN log : "contempt" \in log[i].horsemen}

\* C17: with the Oracle disabled, for a window in which exactly 3 messages
\* match the contempt family (and any number match stonewalling), the
\* Emotional Safety component score is at most 40 and the compiled alert list
\* holds an alert whose pattern is 'contempt'
C17_ThreeContemptLowSafetyAndAlert ==
    (pc = "done" /\ ~use_llm /\ Cardinality(ContemptRows) = 3) =>
        /\ \A c \in calc_emotional_safety(summary) : c.score <= 400
        /\ \A alerts \in SummaryAlerts(summary) : NamesDimension(alerts, "contempt")

\* three rows with contempt, one of them also stonewalling by its delay: the
\* component scores 40 and the contempt alert is compiled
C17_ThreeContemptOneStonewalling ==
    /\ pc = "done" /\ ~use_llm /\ Cardinality(ContemptRows) = 3
    /\ summary.four_horsemen_counts["stonewalling"] >= 1
    /\ \E c \in calc_emotional_safety(summary) : c.score = 400
    /\ \E alerts \in SummaryAlerts(summary) : NamesDimension(alerts, "contempt")

\* a row has gone through the pattern loops of the component scorers
RowCounted == result # NotCalled /\ result.op = "count_row"

\* the dimensions whose components count the row
CountingDimensions == {ComponentDimension[c] : c \in result.out}

\* C19: no message text matches pattern families owned by two different
\* dimensions, so one message is never counted by the pattern-based components
\* of two dimensions
C19_RowCountedByOneDimension ==
    RowCounted => Cardinality(CountingDimensions) <= 1

\* calculate_overall_score was called on 100 text rows, evenly split between
\* two senders, over 30 days, 20 of them matching the affection family and
\* none matching a negative family
TwentyAffectionIn30Days ==
    /\ OverallScoreCalled
    /\ call.window.text = 100 /\ call.window.total_days = 30
    /\ call.window.msg_counts = <<50, 50>>
    /\ call.window.affection = 20
    /\ call.window.summary.total_negative = 0

\* the score of the Expressed Affection component, in tenths
ExpressedAffectionScore ==
    result.locals.recent["affectionCommitment"].components["expressedAffection"].score

\* C18: for 100 text messages evenly split between two senders over 30 days,
\* exactly 20 of them matching the affection family and none a negative
\* family, Expressed Affection scores 100 and the overall label is Healthy or
\* Flourishing
C18_TwentyAffectionScoresHundred ==
    TwentyAffectionIn30Days =>
        /\ ExpressedAffectionScore = 1000
        /\ result.locals.label[2] \in {"Healthy", "Flourishing"}

\* no row matches a family other than affection
OnlyAffectionMatches ==
    /\ call.window.commitment = 0 /\ call.window.gratitude = 0
    /\ call.window.disclosure = 0 /\ call.window.listening = 0
    /\ call.window.supportive = 0
    /\ call.window.summary.positive_counts["repair_attempt"] = 0

\* C18, as the scorer computes it: Expressed Affection scores 100 exactly when
\* the affection matches per week (count over max(span_days / 7, 1)) reach 15;
\* 20 matches over 30 days are 4.67 a week and score 52.5; the label is that
\* of the weighted sum of the four dimensions, which stays below 70 (neither
\* Healthy nor Flourishing) when no other family matches
C18_AffectionHundredFromFifteenAWeek ==
    (OverallScoreCalled /\ call.window.text > 0) =>
        /\ ExpressedAffectionScore = 1000
               <=> (IF call.window.total_days > 7
                    THEN 7 * call.window.affection >= 15 * call.window.total_days
                    ELSE call.window.affection >= 15)
        /\ TwentyAffectionIn30Days => ExpressedAffectionScore = 525
        /\ (TwentyAffectionIn30Days /\ OnlyAffectionMatches)
               => /\ result.locals.overall_score < 70 * 1000
                  /\ result.locals.label[2] \notin {"Healthy", "Flourishing"}

\* the 20 affection matches over 30 days have scored 52.5 and, no other family
\* matching, the weighted sum is labelled Stable
C18_TwentyAffectionScored ==
    /\ TwentyAffectionIn30Days /\ OnlyAffectionMatches
    /\ ExpressedAffectionScore = 525
    /\ result.locals.label[2] = "Stable"

\* a score in tenths lies in [0, 100]
WithinRange(score) == 0 <= score /\ score <= 100 * 10

\* the score of a DimensionScore and of each entry of its components map lie
\* in [0, 100]
DimensionWithinRange(d) ==
    /\ WithinRange(d.score)
    /\ \A n \in DOMAIN d.components : WithinRange(d.components[n].score)

\* C20: with the Oracle disabled, or returning scores within 0..100, every
\* component score of the _calc_* scorers and every DimensionScore.score lies
\* in [0, 100]
C20_ScoresWithinRange ==
    /\ OverallScoreCalled =>
           \A key \in DOMAIN result.locals.recent :
               DimensionWithinRange(result.locals.recent[key])
    /\ (result # NotCalled /\ result.op = "calculate_emotional_connection") =>
           DimensionWithinRange(result.out)
    /\ (result # NotCalled /\ result.op = "calc_contribution_balance") =>
           WithinRange(result.out.score)

\* both ends of the range are met: the Oracle scores the one response 0 and
\* the one disclosure 100, in a window where one row in ten is a disclosure
C20_BothEndsScored ==
    /\ result # NotCalled /\ result.op = "calculate_emotional_connection"
    /\ call.window.response_scores = <<0>> /\ call.window.depth_scores = <<100>>
    /\ result.out.components["responsiveness"].score = 0
    /\ result.out.components["vulnerability"].score = 100 * 10

\* the entries of the log that belong to the n-th invocation
EntriesOf(n) ==
    {i \in DOMAIN cost_tracker.analyses : cost_tracker.analyses[i].invocation = n}

\* the counts that get_cost_by_type reports, summed over the types
RECURSIVE SumCounts(_, _)
SumCounts(report, types) ==
    IF types = {} THEN 0
    ELSE LET t == CHOOSE x \in types : TRUE
         IN  report[t].count + SumCounts(report, types \ {t})

\* an earlier log is the beginning of a later one
IsPrefix(s, t) == Len(s) <= Len(t) /\ \A i \in DOMAIN s : s[i] = t[i]

\* C21: after any sequence of invocations of the five Oracle operations,
\* successful or failing, the CostTracker log holds exactly one AnalysisCost
\* entry per invocation, entries are only ever appended, and the per-type
\* counts of get_cost_by_type sum to the number of entries
C21_OneEntryPerInvocation ==
    /\ [](/\ \A n \in DOMAIN invoked : Cardinality(EntriesOf(n)) = 1
          /\ Len(cost_tracker.analyses) = Len(invoked)
          /\ SumCounts(get_cost_by_type(cost_tracker),
                       DOMAIN get_cost_by_type(cost_tracker))
                 = Len(cost_tracker.analyses))
    /\ [][IsPrefix(cost_tracker.analyses, cost_tracker'.analyses)]_vars

\* this step is the iteration of a row that analyze_message returned for
RowProcessed ==
    /\ Len(log') = Len(log) + 1
    /\ ~log'[Len(log')].skipped
    /\ log'[Len(log')].raised = "None"

\* the matches the row of this step has added to summary.matches
NewMatches == SubSeq(summary'.matches, Len(summary.matches) + 1, Len(summary'.matches))

\* how many of the matches satisfy the test
CountOf(matches, Test(_)) == Cardinality({i \in DOMAIN matches : Test(matches[i])})

\* C22: in analyze_conversation every match that carries a horseman tag
\* raises that horseman's counter by exactly 1 and sets in_conflict with
\* conflict_decay = 5 (one step of which the row's own decay then takes), so a
\* message matching k horseman families raises k counters by 1 each; a
\* negative match without a horseman tag raises total_negative only and
\* leaves in_conflict and conflict_decay to the decay alone
C22_HorsemanMatchCountsAndArms ==
    [][RowProcessed =>
        LET tagged(h) == CountOf(NewMatches, LAMBDA m : m.horseman = h)
            negative == CountOf(NewMatches, LAMBDA m : m.pattern_type # "positive")
            untagged == CountOf(NewMatches,
                                LAMBDA m : m.pattern_type # "positive" /\ m.horseman = "None")
            armed == \E h \in Horsemen : tagged(h) > 0
            after == [in_conflict |-> in_conflict', conflict_decay |-> conflict_decay']
        IN  /\ \A h \in Horsemen :
                  /\ tagged(h) <= 1
                  /\ summary'.four_horsemen_counts[h]
                         = summary.four_horsemen_counts[h] + tagged(h)
            /\ summary'.total_negative = summary.total_negative + negative
            /\ armed => after = DecayStep(TRUE, ConflictDecayStart)
            /\ ~armed => after = DecayStep(in_conflict, conflict_decay)
            /\ (untagged > 0 /\ ~armed) =>
                  \A h \in Horsemen :
                      summary'.four_horsemen_counts[h] = summary.four_horsemen_counts[h]
    ]_vars

\* a row has matched two horseman families, with two counters at 1 and the
\* conflict context armed
C22_TwoHorsemenInOneRow ==
    /\ Len(log) >= 1 /\ Cardinality(log[Len(log)].horsemen) >= 2
    /\ Cardinality({h \in Horsemen : summary.four_horsemen_counts[h] = 1}) >= 2
    /\ in_conflict /\ conflict_decay = ConflictDecayStart - 1

\* detect_stonewalling has returned for a text without a stonewalling phrase
StonewallingCalledWithoutPhrase ==
    /\ result # NotCalled /\ result.op = "detect_stonewalling"
    /\ ~Found("stonewalling", call.text)

\* C23: for a message with no lexical stonewalling phrase, detect_stonewalling
\* returns a stonewalling match iff is_after_conflict is true and the time
\* since the previous message is strictly greater than 120 minutes; without
\* the conflict context, with a delay of 120 minutes or less, or with no
\* previous timestamp it returns no match
C23_StonewallingByDelay ==
    StonewallingCalledWithoutPhrase =>
        /\ result.out # <<>>
               <=> /\ call.is_after_conflict
                   /\ call.response_time_minutes # NoTime
                   /\ call.response_time_minutes > 120
        /\ \A i \in DOMAIN result.out :
               /\ result.out[i].pattern_name = "stonewalling"
               /\ result.out[i].pattern_type = "negative"

\* a reply 121 minutes after its predecessor, in the conflict context, with
\* no stonewalling phrase: a stonewalling match is returned
C23_StonewallingAt121Minutes ==
    /\ StonewallingCalledWithoutPhrase
    /\ call.is_after_conflict /\ call.response_time_minutes = 121
    /\ Len(result.out) = 1 /\ result.out[1].horseman = "stonewalling"

\* the messages of the context that analyze_message, called for the row of
\* this step, hands to the detectors and through them to the Oracle
RowContext == context_str(ConversationContext, PreviousMessageArg(prev_message))

\* the rows before the row of this step that were processed, the n - 1 of the
\* n-th message processed
ProcessedBefore == Cardinality({i \in DOMAIN log : ~log[i].skipped})

\* C24: for the n-th message processed by analyze_conversation the context
\* given to the pattern matcher consists of the texts of the min(n-1, 5)
\* immediately preceding messages, not only of the single previous one
C24_ContextOfUpToFiveMessages ==
    [][RowProcessed =>
        /\ Len(RowContext) = (IF ProcessedBefore < 5 THEN ProcessedBefore ELSE 5)
        /\ (Len(log) >= 1 /\ ~log[Len(log)].skipped) =>
               RowContext[Len(RowContext)] = prev_message
    ]_vars

\* the rows of the window whose text matches a contempt regex
ContemptCandidates == {i \in DOMAIN call.rows : Found("contempt", call.rows[i])}

\* C25: with the Oracle enabled, during one calculate_overall_score run the
\* contempt judgment is requested at most once per message and only for the
\* messages whose text matches a contempt regex, so the number of contempt
\* Oracle calls equals the number of contempt candidates in the window
C25_OneContemptCallPerCandidate ==
    (result # NotCalled /\ result.op = "contempt_oracle_calls" /\ call.llm) =>
        result.out = Cardinality(ContemptCandidates)

\* C26: after every analysed message in_conflict is true exactly when
\* conflict_decay is above 0, and conflict_decay is one of 0..4 (the 5 of a
\* horseman match is decremented before the iteration ends); before the first
\* message they are false and 0
C26_ConflictFlagFollowsDecay ==
    /\ in_conflict <=> conflict_decay > 0
    /\ conflict_decay \in 0..(ConflictDecayStart - 1)
    /\ log = <<>> => (~in_conflict /\ conflict_decay = 0)

\* a horseman match armed the window and five later rows ran it down to 0
C26_WindowArmedThenCleared ==
    /\ \E i \in 1..Len(log) : log[i].horsemen # {}
    /\ Len(log) > 0 /\ log[Len(log)].horsemen = {} /\ log[Len(log)].is_after_conflict
    /\ ~in_conflict /\ conflict_decay = 0

\* the log entry of the row the step analysed
NewRow == log'[Len(log')]

\* C27: a stonewalling match that only the reply delay produced carries the
\* horseman 'stonewalling' and re-arms the conflict window: while in conflict,
\* a row arriving more than 120 minutes after its predecessor keeps in_conflict
\* true with the decay back at its start (4 once the iteration has ended),
\* whatever its text; in_conflict clears only at the end of a run of rows
\* without a horseman-tagged match
C27_DelayRearmsConflictWindow ==
    [][RowProcessed =>
        /\ (in_conflict /\ NewRow.response_time > 120) =>
              /\ "stonewalling" \in NewRow.horsemen
              /\ in_conflict' /\ conflict_decay' = ConflictDecayStart - 1
        /\ (in_conflict /\ ~in_conflict') =>
              /\ Len(log') >= ConflictDecayStart
              /\ \A i \in (Len(log') - (ConflictDecayStart - 2))..Len(log') :
                    log'[i].horsemen = {}]_vars

\* one contempt row, then rows matched by their delay alone kept the window
\* armed, and four quick rows without a match cleared it
C27_DelayedRowsKeptWindowThenCleared ==
    /\ Len(log) = DelayLen
    /\ log[1].horsemen = {"contempt"}
    /\ log[2].horsemen = {"stonewalling"} /\ log[2].response_time = 121
    /\ log[3].horsemen = {"stonewalling"} /\ log[3].response_time = 121
    /\ \A i \in 4..DelayLen : log[i].horsemen = {}
    /\ ~in_conflict

\* the step is an iteration of the loop over a row that is skipped
RowSkipped == Len(log') = Len(log) + 1 /\ NewRow.skipped

\* C28: a row that analyze_conversation skips, its text being empty or 'nan',
\* leaves the summary, in_conflict and conflict_decay as they were, and it is
\* the previous message and the previous time of the row after it: that row
\* has a response time, and no earlier message is its previous message, so it
\* is never a dismissive response
C28_SkippedRowChangesNothing ==
    [][/\ RowSkipped =>
            /\ summary' = summary
            /\ in_conflict' = in_conflict /\ conflict_decay' = conflict_decay
            /\ Skipped(prev_message')
       /\ (RowProcessed /\ Len(log) >= 1 /\ log[Len(log)].skipped) =>
            /\ Skipped(prev_message)
            /\ NewRow.response_time \in Gaps
            /\ \A i \in DOMAIN NewMatches :
                  NewMatches[i].pattern_name # "dismissive_response"]_vars

\* a skipped row in the middle of a conflict window, and the row after it is
\* matched as stonewalling by its delay from the skipped row
C28_SkippedRowInsideWindow ==
    /\ Len(log) = 3
    /\ log[1].horsemen # {}
    /\ log[2].skipped /\ log[2].is_after_conflict
    /\ ~log[3].skipped /\ log[3].is_after_conflict
    /\ log[3].response_time = 121 /\ log[3].horsemen = {"stonewalling"}

\* the pattern_type of a match agrees with the sign of its score_impact, and
\* only a negative match named after a horseman carries a horseman
WellTyped(match) ==
    /\ match.score_impact # 0
    /\ match.pattern_type = "positive" <=> match.score_impact > 0
    /\ match.pattern_type = "negative" <=> match.score_impact < 0
    /\ match.horseman # "None" =>
          /\ match.pattern_type = "negative"
          /\ match.pattern_name \in Horsemen

\* C29: every PatternMatch analyze_message returns, without the Oracle or
\* with any of its verdicts, is 'positive' exactly when its score_impact is
\* above 0 and 'negative' exactly when it is below 0, never 0, and carries a
\* horseman only if it is negative and named criticism, contempt,
\* defensiveness or stonewalling
C29_PatternTypeFollowsScoreSign ==
    \A i \in DOMAIN summary.matches : WellTyped(summary.matches[i])

\* the Oracle demoted a repair to fake_repair and confirmed a contempt
C29_FakeRepairAndOracleContempt ==
    /\ use_llm
    /\ \E i \in DOMAIN summary.matches :
          /\ summary.matches[i].pattern_name = "fake_repair"
          /\ summary.matches[i].score_impact = -2
    /\ \E i \in DOMAIN summary.matches :
          /\ summary.matches[i].pattern_name = "contempt"
          /\ summary.matches[i].score_impact \in {-5, -10}
    /\ \E i \in DOMAIN summary.matches : summary.matches[i].pattern_type = "positive"

\* the call has ended: it returned or raised, and no thread is still running
AsyncEnded ==
    /\ analysis.kind \in {"returned", "raised"}
    /\ \A i \in DOMAIN tasks : tasks[i].stage \in {"done", "failed"}

\* the entries that the tracker holds for the i-th issued call
EntriesOfCall(i) ==
    {j \in DOMAIN cost_tracker.analyses : cost_tracker.analyses[j].invocation = i}

\* the operations in a sequence of calls
OperationsIn(calls) == {calls[i] : i \in DOMAIN calls}

\* C30: for the same message, flags and Oracle replies analyze_message_async
\* issues the same set of Oracle operations as analyze_message and, in
\* whatever order its calls complete, ends with the same results, and the
\* CostTracker ends with exactly one entry for each issued call
C30_AsyncAgreesWithSync ==
    AsyncEnded =>
        /\ OperationsIn([i \in DOMAIN invoked |-> invoked[i].op])
              = OperationsIn(analyze_message_sync(request).issued)
        /\ analysis = analyze_message_sync(request).analysis
        /\ Len(cost_tracker.analyses) = Len(invoked)
        /\ \A i \in DOMAIN invoked : Cardinality(EntriesOfCall(i)) = 1

\* the same with every call answered: the results and the tracker agree
AsyncAgreesWhenAnswered ==
    (AsyncEnded /\ FirstFailing(request) = 0) =>
        /\ OperationsIn([i \in DOMAIN invoked |-> invoked[i].op])
              = OperationsIn(analyze_message_sync(request).issued)
        /\ analysis = analyze_message_sync(request).analysis
        /\ Len(cost_tracker.analyses) = Len(invoked)
        /\ \A i \in DOMAIN invoked : Cardinality(EntriesOfCall(i)) = 1
        /\ \A i \in DOMAIN invoked :
              Len(cost_tracker.costs_by_type[ANALYSIS_TYPE[invoked[i].op]]) = 1
====
